---------------------------- MODULE Spec2Model ----------------------------
(***************************************************************************)
(* Verification model of the PresentOS decision and orchestration core:    *)
(*   - the XP (point) engine            app/services/xp_engine.py          *)
(*   - the PAEI role-decision engine    app/services/paei_engine.py        *)
(*   - the RPM goal-alignment gate      app/services/rpm_engine.py         *)
(*   - the instruction compiler         app/graph/parent_node.py           *)
(*   - the execution router             app/graph/execution_router.py      *)
(*   - the conversation slot filler     app/services/conversation_manager  *)
(*   - the turn pipeline                app/graph/graph_executor.py        *)
(*                                                                         *)
(* Python Optional values are modelled as sequences of length <= 1:        *)
(* None is <<>> and a present value v is <<v>>.  Python floats that are    *)
(* decimal constants are modelled as exact rationals (tenths, hundredths). *)
(***************************************************************************)
EXTENDS Integers, Sequences, FiniteSets, TLC

VARIABLES
    \* ---- XP engine harness (calculate_xp called directly) ----
    xp_in,              \* keyword arguments of the call
    xp_out,             \* returned dict, or the raised ValueError
    xp_pc,              \* "call" before the call, "done" after it
    \* ---- RPM gate harness (compute_rpm called directly) ----
    rpm_in,             \* keyword arguments quest, map_, task of the first call
    rpm_alt,            \* arguments of a second call, one attribute changed
    rpm_out,            \* the RPMResult of each call
    rpm_pc,             \* "call", "called" after the first call, "done"
    \* ---- CalendarService harness (one service, one Google calendar) ----
    cal_in,             \* free/busy answer, now, and the task payload and context
    cal_free,           \* the list returned by a direct _get_free_slots call
    cal_out,            \* the result of each schedule_task / create_event call
    cal_events,         \* events inserted into the Google calendar
    cal_pc,             \* "call", "free", "done", "retried"
    \* ---- PAEI role-decision engine (module-level _decision_engine) ----
    decision_history,   \* PAEIDecisionEngine.decision_history (deque, maxlen 100)
    paei_last,          \* the most recent get_paei_decision call and its result
    paei_own,           \* per session: the final roles assigned to that session
    paei_calls,         \* number of get_paei_decision calls made
    \* ---- one session's turns through PresentOSGraph.invoke ----
    pc,                 \* position of the turn inside invoke
    turn_no,            \* number of turns started
    conversation,       \* PresentOSState.conversation (carried across turns)
    input_text,         \* PresentOSState.input_text
    intent,             \* PresentOSState.intent (None until classified)
    parent_decision,    \* PresentOSState.parent_decision
    activated_agents,   \* PresentOSState.activated_agents
    agent_outputs,      \* PresentOSState.agent_outputs
    router,             \* local variables of ExecutionRouter.__call__
    ledger,             \* XP entries persisted by notion.create_xp in this turn
    final_response,     \* kind of PresentOSState.final_response
    observed            \* what happened in this turn and slot-filling cycle

xp_vars == <<xp_in, xp_out, xp_pc>>
rpm_vars == <<rpm_in, rpm_alt, rpm_out, rpm_pc>>
cal_vars == <<cal_in, cal_free, cal_out, cal_events, cal_pc>>
paei_vars == <<decision_history, paei_last, paei_own, paei_calls>>
turn_vars == <<pc, turn_no, conversation, input_text, intent, parent_decision,
               activated_agents, agent_outputs, router, ledger, final_response,
               observed>>

vars == <<xp_vars, rpm_vars, cal_vars, paei_vars, turn_vars>>

None == <<>>
Some(v) == <<v>>
IsNone(o) == o = <<>>
Val(o) == o[1]

Max2(a, b) == IF a >= b THEN a ELSE b
Min2(a, b) == IF a <= b THEN a ELSE b

(***************************************************************************)
(* Python's round(x) on a non-negative rational num/den: round half to     *)
(* even.  (On the values the engines produce the binary float result is    *)
(* the same as the exact one.)                                             *)
(***************************************************************************)
RoundHalfEven(num, den) ==
    LET fl  == num \div den
        rem == num - fl * den
    IN  IF 2 * rem > den THEN fl + 1
        ELSE IF 2 * rem < den THEN fl
        ELSE IF fl % 2 = 0 THEN fl ELSE fl + 1

(***************************************************************************)
(*                               XP ENGINE                                 *)
(***************************************************************************)
XpActions == {"task_complete", "meeting_complete", "deep_work_block",
              "habit_streak", "reflection", "report_viewed"}

BASE_XP_BY_ACTION ==
    [a \in XpActions |->
        CASE a = "task_complete"    -> 5
          [] a = "meeting_complete" -> 3
          [] a = "deep_work_block"  -> 8
          [] a = "habit_streak"     -> 10
          [] a = "reflection"       -> 4
          [] a = "report_viewed"    -> 2]

Roles == {"P", "A", "E", "I"}

\* multipliers in tenths: 1.2, 1.0, 1.3, 1.1
PAEI_MULTIPLIER ==
    [r \in Roles |->
        CASE r = "P" -> 12
          [] r = "A" -> 10
          [] r = "E" -> 13
          [] r = "I" -> 11]

DifficultyNames == {"easy", "medium", "hard"}

DIFFICULTY_BONUS ==
    [d \in DifficultyNames |->
        CASE d = "easy"   -> 0
          [] d = "medium" -> 2
          [] d = "hard"   -> 5]

MAX_DURATION_BONUS == 5
DURATION_UNIT_MINUTES == 30

\* str.upper() on the role strings that occur
Upper(s) ==
    CASE s = "p" -> "P"
      [] s = "a" -> "A"
      [] s = "e" -> "E"
      [] s = "i" -> "I"
      [] OTHER   -> s

\* str.lower() on the role strings that occur
Lower(s) ==
    CASE s = "P" -> "p"
      [] s = "A" -> "a"
      [] s = "E" -> "e"
      [] s = "I" -> "i"
      [] OTHER   -> s

\* dict.get(key, default) on a function used as a dict
DictGet(d, k, default) == IF k \in DOMAIN d THEN d[k] ELSE default

\* base_xp * PAEI_MULTIPLIER[paei], rounded to an int before any bonus
RoleBaseXp(action_type, paei) ==
    RoundHalfEven(BASE_XP_BY_ACTION[action_type] * PAEI_MULTIPLIER[paei], 10)

XpBonus(difficulty, duration_minutes, priority) ==
    LET b1 == IF ~IsNone(difficulty) /\ Val(difficulty) # ""
              THEN DictGet(DIFFICULTY_BONUS, Val(difficulty), 0) ELSE 0
        b2 == IF ~IsNone(duration_minutes) /\ Val(duration_minutes) > 0
              THEN b1 + Min2(Val(duration_minutes) \div DURATION_UNIT_MINUTES,
                             MAX_DURATION_BONUS)
              ELSE b1
    IN  IF priority = Some("high") THEN b2 + 1
        ELSE IF priority = Some("low") THEN Max2(b2 - 1, 0)
        ELSE b2

\* mutant: the dominance threshold is inclusive
BalanceMultiplierInclusive(paei_distribution, paei) ==
    IF IsNone(paei_distribution) \/ DOMAIN Val(paei_distribution) = {}
    THEN 10
    ELSE LET dominance == DictGet(Val(paei_distribution), paei, 0)
         IN  IF dominance >= 45 THEN 7
             ELSE IF dominance < 15 THEN 13
             ELSE 10

\* balance multiplier in tenths; the distribution maps roles to percent
BalanceMultiplier(paei_distribution, paei) ==
    IF IsNone(paei_distribution) \/ DOMAIN Val(paei_distribution) = {}
    THEN 10
    ELSE LET dominance == DictGet(Val(paei_distribution), paei, 0)
         IN  IF dominance > 45 THEN 7
             ELSE IF dominance < 15 THEN 13
             ELSE 10

\* recovery multiplier in tenths
RecoveryMultiplier(recovery_score, paei) ==
    IF ~IsNone(recovery_score) /\ Val(recovery_score) < 40
    THEN IF paei = "P" THEN 6 ELSE IF paei = "I" THEN 12 ELSE 10
    ELSE 10

\* f"{paei.lower()}_execution"
ExecutionCategory(paei) ==
    CASE Lower(paei) = "p" -> "p_execution"
      [] Lower(paei) = "a" -> "a_execution"
      [] Lower(paei) = "e" -> "e_execution"
      [] Lower(paei) = "i" -> "i_execution"
      [] OTHER             -> "execution"

_infer_category(action_type, paei) ==
    CASE action_type = "deep_work_block"  -> "deep_work"
      [] action_type = "meeting_complete" -> "collaboration"
      [] action_type = "habit_streak"     -> "consistency"
      [] action_type = "reflection"       -> "self_awareness"
      [] OTHER                            -> ExecutionCategory(paei)

XpError(msg) == [ok |-> FALSE, error |-> msg, xp |-> 0, bonus |-> 0,
                 category |-> "", paei |-> ""]

\* mutant: the product is truncated and the floor of 1 is left out
CalculateXpTruncated(a) ==
    IF a.action_type \notin DOMAIN BASE_XP_BY_ACTION
    THEN XpError("Unknown action_type")
    ELSE LET paei == Upper(a.paei) IN
         IF paei \notin DOMAIN PAEI_MULTIPLIER
         THEN XpError("Invalid PAEI value")
         ELSE LET xp    == RoleBaseXp(a.action_type, paei)
                  bonus == XpBonus(a.difficulty, a.duration_minutes, a.priority)
                  bm    == BalanceMultiplier(a.paei_distribution, paei)
                  rm    == RecoveryMultiplier(a.recovery_score, paei)
              IN  [ok       |-> TRUE,
                   error    |-> "",
                   xp       |-> ((xp + bonus) * bm * rm) \div 100,
                   bonus    |-> bonus,
                   category |-> _infer_category(a.action_type, paei),
                   paei     |-> paei]

calculate_xp(a) ==
    IF a.action_type \notin DOMAIN BASE_XP_BY_ACTION
    THEN XpError("Unknown action_type")
    ELSE LET paei == Upper(a.paei) IN
         IF paei \notin DOMAIN PAEI_MULTIPLIER
         THEN XpError("Invalid PAEI value")
         ELSE LET xp    == RoleBaseXp(a.action_type, paei)
                  bonus == XpBonus(a.difficulty, a.duration_minutes, a.priority)
                  bm    == BalanceMultiplier(a.paei_distribution, paei)
                  rm    == RecoveryMultiplier(a.recovery_score, paei)
              IN  [ok       |-> TRUE,
                   error    |-> "",
                   xp       |-> Max2(RoundHalfEven((xp + bonus) * bm * rm, 100), 1),
                   bonus    |-> bonus,
                   category |-> _infer_category(a.action_type, paei),
                   paei     |-> paei]

(***************************************************************************)
(* Harness for the pure function calculate_xp: the arguments are drawn     *)
(* from sets that cover every branch (unknown action, unknown and          *)
(* lower-case role, every bonus, both balance thresholds, the recovery     *)
(* threshold); the single action performs the call.                        *)
(***************************************************************************)
XpActionInputs == XpActions \cup {"workout_completed", "bogus"}
XpRoleInputs == Roles \cup {"e", "X"}
XpDifficultyInputs == {None, Some("medium"), Some("hard"), Some("extreme")}
XpDurationInputs == {None, Some(0), Some(29), Some(30), Some(60), Some(200)}
XpPriorityInputs == {None, Some("high"), Some("low")}
XpDistributionInputs ==
    {None,
     Some([r \in {} |-> 0]),
     Some([r \in {"E"} |-> 50]),
     Some([r \in {"A"} |-> 45]),
     Some([r \in Roles |-> CASE r = "P" -> 46 [] r = "A" -> 15
                              [] r = "E" -> 25 [] r = "I" -> 14])}
XpRecoveryInputs == {None, Some(39), Some(40)}

XpInputs ==
    [action_type       : XpActionInputs,
     paei              : XpRoleInputs,
     difficulty        : XpDifficultyInputs,
     duration_minutes  : XpDurationInputs,
     priority          : XpPriorityInputs,
     paei_distribution : XpDistributionInputs,
     recovery_score    : XpRecoveryInputs]

XpNoResult == [ok |-> FALSE, error |-> "not called", xp |-> 0, bonus |-> 0,
               category |-> "", paei |-> ""]

XpInit ==
    /\ xp_in \in XpInputs
    /\ xp_out = XpNoResult
    /\ xp_pc = "call"

\* the harness is not running
XpIdle ==
    /\ xp_in = None
    /\ xp_out = XpNoResult
    /\ xp_pc = "idle"

CallCalculateXp ==
    /\ xp_pc = "call"
    /\ xp_out' = calculate_xp(xp_in)
    /\ xp_pc' = "done"
    /\ UNCHANGED xp_in

(***************************************************************************)
(*                        PAEI ROLE-DECISION ENGINE                        *)
(***************************************************************************)
RoleOrder == <<"P", "A", "E", "I">>

\* max(d.items(), key=value)[0]: the first key, in dict order, of greatest value
ArgMaxFirst(f) ==
    LET i == CHOOSE k \in 1..4 :
                /\ \A j \in 1..4 : f[RoleOrder[j]] <= f[RoleOrder[k]]
                /\ \A j \in 1..(k - 1) : f[RoleOrder[j]] < f[RoleOrder[k]]
    IN  RoleOrder[i]

\* min(d.items(), key=value)[0]: the first key, in dict order, of least value
ArgMinFirst(f) ==
    LET i == CHOOSE k \in 1..4 :
                /\ \A j \in 1..4 : f[RoleOrder[j]] >= f[RoleOrder[k]]
                /\ \A j \in 1..(k - 1) : f[RoleOrder[j]] > f[RoleOrder[k]]
    IN  RoleOrder[i]

W(signals, name, tenths) == IF name \in signals THEN tenths ELSE 0

\* signals: the set of flags that are true; scores in tenths
_analyze_intent(signals) ==
    LET scores ==
          [r \in Roles |->
             CASE r = "P" -> W(signals, "urgency", 8) + W(signals, "deadline", 6)
                             + W(signals, "execution_focus", 7)
               [] r = "A" -> W(signals, "administrative", 9) + W(signals, "structured", 7)
                             + W(signals, "documentation", 6)
               [] r = "E" -> W(signals, "exploratory", 8) + W(signals, "strategic", 9)
                             + W(signals, "creative", 7)
               [] r = "I" -> W(signals, "involves_people", 8)
                             + W(signals, "emotional_tone", 9)
                             + W(signals, "relationship_focus", 8)]
    IN  ArgMaxFirst(scores)

HISTORY_MAXLEN == 100
REBALANCE_MIN_HISTORY == 20
REBALANCE_SHARE_PERCENT == 15
LOW_RECOVERY == 40

CountRole(hist, r) == Cardinality({i \in 1..Len(hist) : hist[i] = r})

\* role -> number of entries; the share of r is counts[r] / Len(hist)
_get_current_distribution(hist) == [r \in Roles |-> CountRole(hist, r)]

\* mutant: rebalancing below a share of 20% instead of 15%
ApplyContextAdjustmentsShare20(base_role, context, hist) ==
    IF context.whoop_recovery < LOW_RECOVERY /\ base_role = "P" THEN "I"
    ELSE IF context.deadline_pressure = "critical" THEN "P"
    ELSE IF context.team_morale = "fragile" THEN "I"
    ELSE IF Len(hist) >= REBALANCE_MIN_HISTORY
         THEN LET distribution == _get_current_distribution(hist)
                  neglected    == ArgMinFirst(distribution)
              IN  IF distribution[neglected] * 100 < 20 * Len(hist)
                  THEN neglected
                  ELSE base_role
         ELSE base_role

\* mutant: the deque drops its newest entry when it is full
DequeAppendDropNewest(hist, r) ==
    IF Len(hist) >= HISTORY_MAXLEN
    THEN Append(SubSeq(hist, 1, Len(hist) - 1), r)
    ELSE Append(hist, r)

\* mutant: the low-recovery threshold is 30 instead of 40
ApplyContextAdjustmentsLow30(base_role, context, hist) ==
    IF context.whoop_recovery < 30 /\ base_role = "P" THEN "I"
    ELSE IF context.deadline_pressure = "critical" THEN "P"
    ELSE IF context.team_morale = "fragile" THEN "I"
    ELSE base_role

_apply_context_adjustments(base_role, context, hist) ==
    IF context.whoop_recovery < LOW_RECOVERY /\ base_role = "P" THEN "I"
    ELSE IF context.deadline_pressure = "critical" THEN "P"
    ELSE IF context.team_morale = "fragile" THEN "I"
    ELSE IF Len(hist) >= REBALANCE_MIN_HISTORY
         THEN LET distribution == _get_current_distribution(hist)
                  neglected    == ArgMinFirst(distribution)
              IN  IF distribution[neglected] * 100 < REBALANCE_SHARE_PERCENT * Len(hist)
                  THEN neglected
                  ELSE base_role
         ELSE base_role

_calculate_xp(role, signals, context) ==
    LET base_xp == CASE role = "P" -> 5 [] role = "A" -> 8
                     [] role = "E" -> 10 [] role = "I" -> 7
        b1 == IF context.whoop_recovery < LOW_RECOVERY /\ role = "I" THEN 3 ELSE 0
        b2 == IF context.deadline_pressure = "critical" /\ role = "P" THEN 5 ELSE 0
        b3 == IF "urgency" \in signals /\ role = "P" THEN 2 ELSE 0
    IN  Max2(1, base_xp + b1 + b2 + b3)

\* deque(maxlen=100).append
DequeAppend(hist, r) ==
    IF Len(hist) >= HISTORY_MAXLEN THEN Append(Tail(hist), r) ELSE Append(hist, r)

\* PAEIDecisionEngine.decide: the decision and the history after it
decide(intent_signals, context, hist) ==
    LET base_role  == _analyze_intent(intent_signals)
        final_role == _apply_context_adjustments(base_role, context, hist)
    IN  [role      |-> final_role,
         base_role |-> base_role,
         xp_amount |-> _calculate_xp(final_role, intent_signals, context),
         history   |-> DequeAppend(hist, final_role)]

(***************************************************************************)
(* Harness: the host process serves two sessions; every turn of a session  *)
(* that has sub-intents calls get_paei_decision on the one module-level    *)
(* engine (parent_node.py line 118).  The initial states are the fresh     *)
(* engine and engines that have already served WarmLen turns of one        *)
(* session with one role.                                                  *)
(***************************************************************************)
Sessions == {"A", "B"}
MaxDecisions == 2
WarmLen == 19

SignalInputs ==
    {{}, {"administrative"}, {"strategic"}, {"involves_people"},
     {"urgency", "emotional_tone"}, {"urgency", "relationship_focus"}}

ContextInputs ==
    [whoop_recovery    : {30, 40},
     team_morale       : {"stable", "fragile"},
     deadline_pressure : {"low", "critical"}]

Repeat(r, n) == [i \in 1..n |-> r]

NoDecision ==
    [called |-> FALSE, session |-> "", signals |-> {},
     context |-> [whoop_recovery |-> 70, team_morale |-> "stable",
                  deadline_pressure |-> "low"],
     role |-> "", base_role |-> "", xp_amount |-> 0,
     history_before |-> <<>>, own_before |-> <<>>]

\* the histories the engine may hold when the observed turns start: empty,
\* one turn short of the rebalancing length or of the capacity with a single
\* role, or of the rebalancing length with role r at 10% or 15% (r in its
\* first `low` entries, the other three roles in turn after them)
WarmHistories ==
    LET Others(r) == SelectSeq(RoleOrder, LAMBDA x : x # r)
        MixedHistory(r, low, n) ==
            [i \in 1..n |-> IF i <= low THEN r ELSE Others(r)[((i - low - 1) % 3) + 1]]
    IN  {Repeat(r, n) : r \in Roles, n \in {0, WarmLen, HISTORY_MAXLEN - 1}}
        \cup {MixedHistory(r, low, WarmLen + 1) : r \in Roles, low \in {2, 3}}

PaeiInit ==
    /\ \E w \in Sessions, h \in WarmHistories :
          /\ w = "A" \/ Len(h) <= WarmLen
          /\ decision_history = h
          /\ paei_own = [s \in Sessions |-> IF s = w THEN h ELSE <<>>]
    /\ paei_last = NoDecision
    /\ paei_calls = 0

PaeiIdle ==
    /\ decision_history = <<>>
    /\ paei_own = [s \in Sessions |-> <<>>]
    /\ paei_last = NoDecision
    /\ paei_calls = 0

\* get_paei_decision(intent_signals, context), called by a turn of session s
GetPaeiDecision(s, intent_signals, context) ==
    LET d == decide(intent_signals, context, decision_history) IN
    /\ paei_calls < MaxDecisions
    /\ decision_history' = d.history
    /\ paei_last' = [called |-> TRUE, session |-> s, signals |-> intent_signals,
                     context |-> context, role |-> d.role,
                     base_role |-> d.base_role, xp_amount |-> d.xp_amount,
                     history_before |-> decision_history,
                     own_before |-> paei_own[s]]
    /\ paei_own' = [paei_own EXCEPT ![s] = Append(@, d.role)]
    /\ paei_calls' = paei_calls + 1

PaeiTurn ==
    \E s \in Sessions, sig \in SignalInputs, c \in ContextInputs :
        GetPaeiDecision(s, sig, c)

(***************************************************************************)
(*                        CONVERSATION SLOT FILLER                         *)
(***************************************************************************)
EmptyDict == [k \in {} |-> ""]

DictSet(d, k, v) == [x \in (DOMAIN d) \cup {k} |-> IF x = k THEN v ELSE d[x]]

\* state.conversation is None or {} (both falsy)
NoConversation ==
    [status |-> "none", agent |-> "", missing_fields |-> <<>>, filled |-> EmptyDict]

\* the user messages of the model: raw text, the PAEI keywords it contains
Texts ==
    {[raw |-> "",       words |-> {}],
     [raw |-> "launch site",   words |-> {}],
     [raw |-> " urgent call ", words |-> {"urgency"}],
     [raw |-> "explore the plan",
      words |-> {"exploratory", "strategic", "gamification"}]}

\* str.strip()
Strip(raw) == IF raw = " urgent call " THEN "urgent call" ELSE raw

\* mutant: the answered slot stays at the head of the queue
MergeSlotAnswersNoPop(convo, user_text) ==
    IF convo.missing_fields = <<>> THEN convo
    ELSE [convo EXCEPT !.filled =
              DictSet(convo.filled, Head(convo.missing_fields), Strip(user_text))]

\* mutant: the session stays awaiting when the last slot is filled
MergeSlotAnswersNeverComplete(convo, user_text) ==
    IF convo.missing_fields = <<>> THEN convo
    ELSE [convo EXCEPT
            !.missing_fields = Tail(convo.missing_fields),
            !.filled = DictSet(convo.filled, Head(convo.missing_fields),
                               Strip(user_text))]

_merge_slot_answers(convo, user_text) ==
    IF convo.missing_fields = <<>> THEN convo
    ELSE LET slot    == Head(convo.missing_fields)
             missing == Tail(convo.missing_fields)
             filled  == DictSet(convo.filled, slot, Strip(user_text))
         IN  IF missing # <<>>
             THEN [convo EXCEPT !.missing_fields = missing, !.filled = filled]
             ELSE [status |-> "complete", agent |-> convo.agent,
                   missing_fields |-> <<>>, filled |-> filled]

process_user_message(convo, user_text) ==
    LET cleared == IF convo.status = "complete" THEN NoConversation ELSE convo
    IN  IF cleared.status = "awaiting_user"
        THEN _merge_slot_answers(cleared, user_text)
        ELSE cleared

is_slot_filling(convo) == convo.status = "awaiting_user"

\* outputs: sequence of [agent_name, reason, missing]; every output with the
\* missing_required_fields reason and a non-empty list overwrites
\* state.conversation (the loop has no break)
RECURSIVE handle_agent_outputs(_, _)
handle_agent_outputs(convo, outputs) ==
    IF outputs = <<>> THEN convo
    ELSE LET output == Head(outputs)
             next   == IF output.reason = "missing_required_fields"
                          /\ output.missing # <<>>
                       THEN [status |-> "awaiting_user", agent |-> output.agent_name,
                             missing_fields |-> output.missing, filled |-> EmptyDict]
                       ELSE convo
         IN  handle_agent_outputs(next, Tail(outputs))

(***************************************************************************)
(*                        RPM GOAL-ALIGNMENT GATE                          *)
(* Scores are in hundredths.  A quest is None or a record [status,         *)
(* end_date, xp_target]; end_date is "none", "invalid" (strptime fails),   *)
(* "past", "today" or "future" relative to now.date().  A map is None or   *)
(* [priority, type]; a task is None or [source, task_type, priority].      *)
(***************************************************************************)
\* mutant: a point target is counted against the quest
QuestContributionTargetPenalty(quest) ==
    IF IsNone(quest) THEN -5
    ELSE LET q == Val(quest) IN
         (IF q.status = "In Progress" THEN 30 ELSE -10)
         + (CASE q.end_date \in {"today", "future"} -> 15
              [] q.end_date = "past"                -> -20
              [] OTHER                              -> 0)
         + (IF q.xp_target > 0 THEN -10 ELSE 0)

QuestContribution(quest) ==
    IF IsNone(quest) THEN -5
    ELSE LET q == Val(quest) IN
         (IF q.status = "In Progress" THEN 30 ELSE -10)
         + (CASE q.end_date \in {"today", "future"} -> 15
              [] q.end_date = "past"                -> -20
              [] OTHER                              -> 0)
         + (IF q.xp_target > 0 THEN 10 ELSE 0)

MapContribution(map_) ==
    IF IsNone(map_) THEN -3
    ELSE LET m == Val(map_) IN
         (CASE m.priority = "High"   -> 25
            [] m.priority = "Medium" -> 15
            [] OTHER                 -> 5)
         + (IF m.type \in {"Execution", "Planning"} THEN 15 ELSE 8)

TaskContribution(task) ==
    IF IsNone(task) THEN 0
    ELSE LET t == Val(task) IN
         (CASE t.source \in {"Voice", "Manual"} -> 8
            [] t.source = "Email"               -> 3
            [] OTHER                            -> 0)
         + (IF t.task_type = "Admin" THEN 2 ELSE 5)
         + (IF t.priority = "High" THEN 8 ELSE 0)

\* mutant: the score is not clamped
ComputeRpmUnclamped(quest, map_, task) ==
    LET score == 50 + QuestContribution(quest) + MapContribution(map_)
                    + TaskContribution(task)
    IN  IF score >= 40
        THEN [aligned |-> TRUE, alignment_score |-> score, recommendation |-> "proceed"]
        ELSE IF score >= 20
        THEN [aligned |-> FALSE, alignment_score |-> score, recommendation |-> "defer"]
        ELSE [aligned |-> FALSE, alignment_score |-> score,
              recommendation |-> "ask_clarify"]

compute_rpm(quest, map_, task) ==
    LET raw   == 50 + QuestContribution(quest) + MapContribution(map_)
                    + TaskContribution(task)
        score == Max2(10, Min2(raw, 100))
    IN  IF score >= 40
        THEN [aligned |-> TRUE, alignment_score |-> score, recommendation |-> "proceed"]
        ELSE IF score >= 20
        THEN [aligned |-> FALSE, alignment_score |-> score, recommendation |-> "defer"]
        ELSE [aligned |-> FALSE, alignment_score |-> score,
              recommendation |-> "ask_clarify"]

\* "FOR MVP TESTING: Override to always proceed"
compute_rpm_from_context(quest, map_, task) ==
    LET result == compute_rpm(quest, map_, task)
    IN  IF result.recommendation # "proceed"
        THEN [aligned |-> TRUE, alignment_score |-> 70, recommendation |-> "proceed"]
        ELSE result

(***************************************************************************)
(* Harness for the pure function compute_rpm.  The arguments are drawn     *)
(* from sets that hold every value the code distinguishes; "" is a key     *)
(* that is missing or None (for end_date that is "none", for xp_target 0). *)
(* After the first call the function is called once more on arguments      *)
(* that differ from the first ones in a single attribute; an object that   *)
(* was absent then carries that attribute only.                            *)
(***************************************************************************)
RpmKeys(o) ==
    CASE o = "quest" -> {"status", "end_date", "xp_target"}
      [] o = "map_"  -> {"priority", "type"}
      [] o = "task"  -> {"source", "task_type", "priority"}

RpmValues(o, k) ==
    CASE k = "status"    -> {"In Progress", "Completed", ""}
      [] k = "end_date"  -> {"none", "invalid", "past", "today", "future"}
      [] k = "xp_target" -> {0, 100}
      [] k = "type"      -> {"Execution", "Research", ""}
      [] k = "source"    -> {"Voice", "Email", "Notion", ""}
      [] k = "task_type" -> {"Admin", "Deep Work", ""}
      [] k = "priority"  -> IF o = "map_" THEN {"High", "Medium", ""}
                            ELSE {"High", "Low", ""}

RpmInputs ==
    [quest : {None} \cup {Some(q) : q \in [status    : RpmValues("quest", "status"),
                                           end_date  : RpmValues("quest", "end_date"),
                                           xp_target : RpmValues("quest", "xp_target")]},
     map_  : {None} \cup {Some(m) : m \in [priority : RpmValues("map_", "priority"),
                                           type     : RpmValues("map_", "type")]},
     task  : {None} \cup {Some(t) : t \in [source    : RpmValues("task", "source"),
                                           task_type : RpmValues("task", "task_type"),
                                           priority  : RpmValues("task", "priority")]}]

\* the value of a key that is not set
Unset(k) == IF k = "end_date" THEN "none" ELSE IF k = "xp_target" THEN 0 ELSE ""

\* the arguments a with key k of object o set to v; an absent object
\* becomes a dict that holds this key only
WithAttribute(a, o, k, v) ==
    [a EXCEPT ![o] = IF IsNone(a[o])
                     THEN Some([x \in RpmKeys(o) |-> IF x = k THEN v ELSE Unset(x)])
                     ELSE Some([Val(a[o]) EXCEPT ![k] = v])]

RpmNoResult == [aligned |-> FALSE, alignment_score |-> 0, recommendation |-> ""]

RpmInit ==
    /\ rpm_in \in RpmInputs
    /\ rpm_alt = None
    /\ rpm_out = [first |-> RpmNoResult, second |-> RpmNoResult]
    /\ rpm_pc = "call"

\* the harness is not running
RpmIdle ==
    /\ rpm_in = None
    /\ rpm_alt = None
    /\ rpm_out = [first |-> RpmNoResult, second |-> RpmNoResult]
    /\ rpm_pc = "idle"

CallComputeRpm ==
    /\ rpm_pc = "call"
    /\ rpm_out' = [rpm_out EXCEPT
                     !.first = compute_rpm(rpm_in.quest, rpm_in.map_, rpm_in.task)]
    /\ rpm_pc' = "called"
    /\ UNCHANGED <<rpm_in, rpm_alt>>

CallComputeRpmChanged(o, k, v) ==
    /\ rpm_pc = "called"
    /\ LET alt == WithAttribute(rpm_in, o, k, v) IN
       /\ alt # rpm_in
       /\ IsNone(rpm_in[o]) => v # Unset(k)
       /\ rpm_alt' = Some(alt)
       /\ rpm_out' = [rpm_out EXCEPT
                        !.second = compute_rpm(alt.quest, alt.map_, alt.task)]
    /\ rpm_pc' = "done"
    /\ UNCHANGED rpm_in

(***************************************************************************)
(*                  CALENDAR SERVICE AND SLOT OPTIMIZER                    *)
(* Instants are minutes counted from a midnight; a busy interval and a     *)
(* free slot are records [start, end].  Scores are in hundredths and the   *)
(* composite score in thousandths.                                         *)
(***************************************************************************)
\* mutant: the cursor jumps to the end of each busy interval
RECURSIVE GetFreeSlotsNoMax(_, _, _, _)
GetFreeSlotsNoMax(busy_periods, current, end, min_duration) ==
    IF busy_periods = <<>>
    THEN IF current < end /\ end - current >= min_duration
         THEN <<[start |-> current, end |-> end]>>
         ELSE <<>>
    ELSE LET busy == Head(busy_periods)
             gap  == IF current < busy.start /\ busy.start - current >= min_duration
                     THEN <<[start |-> current, end |-> busy.start]>>
                     ELSE <<>>
         IN  gap \o GetFreeSlotsNoMax(Tail(busy_periods), busy.end, end, min_duration)

\* the loop over busy_periods; the cursor "current" starts at start
RECURSIVE _get_free_slots(_, _, _, _)
_get_free_slots(busy_periods, current, end, min_duration) ==
    IF busy_periods = <<>>
    THEN IF current < end /\ end - current >= min_duration
         THEN <<[start |-> current, end |-> end]>>
         ELSE <<>>
    ELSE LET busy == Head(busy_periods)
             gap  == IF current < busy.start /\ busy.start - current >= min_duration
                     THEN <<[start |-> current, end |-> busy.start]>>
                     ELSE <<>>
         IN  gap \o _get_free_slots(Tail(busy_periods), Max2(current, busy.end),
                                    end, min_duration)

\* 0.3 paei + 0.3 energy + 0.2 weather + 0.2 deadline for a slot start, with
\* _score_paei_time over PAEITimePreferences, _score_energy_match and
\* _score_deadline_proximity
SlotScore(slot_start, role, recovery, weather, deadline) ==
    LET hour  == (slot_start \div 60) % 24
        peak  == CASE role = "P" -> (9..11) \cup (15..16)
                   [] role = "A" -> (10..11) \cup (14..15)
                   [] role = "E" -> (11..12) \cup (16..17)
                   [] role = "I" -> (13..14) \cup (17..18)
                   [] OTHER      -> {}
        avoid == CASE role = "P" -> {13}
                   [] role = "E" -> {9}
                   [] role = "I" -> 9..11
                   [] OTHER      -> {}
        paei   == IF hour \in peak THEN 100 ELSE IF hour \in avoid THEN 20 ELSE 60
        energy == IF recovery > 70 /\ hour \in 9..11 THEN 100
                  ELSE IF recovery < 40 THEN 30 ELSE 70
        due    == IF deadline - slot_start < 24 * 60 THEN 100
                  ELSE IF deadline - slot_start < 72 * 60 THEN 70 ELSE 40
    IN  3 * paei + 3 * energy + 2 * weather + 2 * due

\* mutant: the requested duration is not passed to _get_free_slots
FindOptimalSlotAnyLength(a) ==
    LET free_slots == _get_free_slots(a.busy, a.now, a.deadline, 0)
        Score(i)   == SlotScore(free_slots[i].start, a.paei, a.recovery, a.weather,
                                a.deadline)
    IN  IF free_slots = <<>> THEN None
        ELSE LET best == CHOOSE i \in DOMAIN free_slots :
                            /\ \A j \in DOMAIN free_slots : Score(j) <= Score(i)
                            /\ \A j \in 1..(i - 1) : Score(j) < Score(i)
             IN  Some([start |-> free_slots[best].start,
                       end   |-> free_slots[best].end,
                       score |-> Score(best)])

\* the first free slot of greatest score, or None when there is no free slot
_find_optimal_slot(a) ==
    LET free_slots == _get_free_slots(a.busy, a.now, a.deadline, a.estimated_minutes)
        Score(i)   == SlotScore(free_slots[i].start, a.paei, a.recovery, a.weather,
                                a.deadline)
    IN  IF free_slots = <<>> THEN None
        ELSE LET best == CHOOSE i \in DOMAIN free_slots :
                            /\ \A j \in DOMAIN free_slots : Score(j) <= Score(i)
                            /\ \A j \in 1..(i - 1) : Score(j) < Score(i)
             IN  Some([start |-> free_slots[best].start,
                       end   |-> free_slots[best].end,
                       score |-> Score(best)])

\* google_calendar.create_event: the key is stored with the event and the
\* event is inserted; an HttpError is raised again and nothing is inserted
google_calendar_create_event(events, event, idempotency_key, ok) ==
    IF ok
    THEN Append(events, [start |-> event.start, end |-> event.end,
                         idempotency_key |-> idempotency_key])
    ELSE events

MaxBusy == 2

CalInstants == {540, 720, 780, 1080, 1980}

CalInputs ==
    [busy              : UNION {[1..n -> {b \in [start : CalInstants,
                                                   end   : CalInstants] :
                                                b.start < b.end}]
                                  : n \in 0..MaxBusy},
     now               : {540, 720},
     deadline          : {540, 1080, 1980},
     estimated_minutes : {30, 90, 400},
     paei              : {"P", "I"},
     recovery          : {30, 80},
     weather           : {0, 80}]

\* the harness is not running
CalIdle ==
    /\ cal_in = None
    /\ cal_free = <<>>
    /\ cal_out = <<>>
    /\ cal_events = <<>>
    /\ cal_pc = "idle"

\* a direct call of _get_free_slots for the window now .. deadline
GetFreeSlots ==
    /\ cal_pc = "call"
    /\ cal_free' = _get_free_slots(cal_in.busy, cal_in.now, cal_in.deadline,
                                   cal_in.estimated_minutes)
    /\ cal_pc' = "free"
    /\ UNCHANGED <<cal_in, cal_out, cal_events>>

\* the call is the first one, or repeats the operation of the first one
CallOrRetry(op) ==
    /\ cal_pc \in {"free", "done"}
    /\ cal_pc = "done" => cal_out[1].op = op
    /\ cal_pc' = IF cal_pc = "free" THEN "done" ELSE "retried"
    /\ UNCHANGED <<cal_in, cal_free>>

\* CalendarService.schedule_task; uuid.uuid4() is a value never used before
ScheduleTask(google_ok) ==
    /\ CallOrRetry("schedule_task")
    /\ LET best_slot == _find_optimal_slot(cal_in)
           uuid4     == Len(cal_out) + 1
       IN  IF IsNone(best_slot) \/ Val(best_slot).score < 300
           THEN /\ cal_out' = Append(cal_out, [op |-> "schedule_task",
                                               action |-> "deferred", slot |-> None,
                                               key |-> None])
                /\ UNCHANGED cal_events
           ELSE /\ cal_events' = google_calendar_create_event(cal_events,
                                     Val(best_slot), uuid4, google_ok)
                /\ cal_out' = Append(cal_out,
                                 [op     |-> "schedule_task",
                                  action |-> IF google_ok THEN "blocked_time"
                                             ELSE "raised",
                                  slot   |-> best_slot,
                                  key    |-> Some(uuid4)])

\* CalendarService.create_event for the interval given in the payload
CreateEvent(google_ok) ==
    /\ CallOrRetry("create_event")
    /\ LET uuid4 == Len(cal_out) + 1
           event == [start |-> cal_in.now, end |-> cal_in.now + 60]
       IN  /\ cal_events' = google_calendar_create_event(cal_events, event, uuid4,
                                                         google_ok)
           /\ cal_out' = Append(cal_out,
                            [op     |-> "create_event",
                             action |-> IF google_ok THEN "created_event"
                                        ELSE "raised",
                             slot   |-> None,
                             key    |-> Some(uuid4)])

(***************************************************************************)
(*                 INSTRUCTION COMPILER (ParentNode.__call__)              *)
(***************************************************************************)
Categories == {"task", "calendar", "email", "focus", "quest", "map", "contact",
               "meeting", "fireflies", "xp", "weather", "finance"}

CATEGORY_AGENT_MAP ==
    [c \in Categories |->
        CASE c = "task"      -> "task_agent"
          [] c = "calendar"  -> "calendar_agent"
          [] c = "email"     -> "email_agent"
          [] c = "focus"     -> "focus_agent"
          [] c = "quest"     -> "quest_agent"
          [] c = "map"       -> "map_agent"
          [] c = "contact"   -> "contact_agent"
          [] c = "meeting"   -> "fireflies_agent"
          [] c = "fireflies" -> "fireflies_agent"
          [] c = "xp"        -> "xp_agent"
          [] c = "weather"   -> "weather_agent"
          [] c = "finance"   -> "finance_agent"]

ReadDomains == {"plan_report", "weather", "research", "report", "xp_status",
                "finance_status", "quest_status", "meeting_summary"}

READ_DOMAIN_AGENT_MAP ==
    [d \in ReadDomains |->
        CASE d = "plan_report"     -> "plan_report_agent"
          [] d = "weather"         -> "weather_agent"
          [] d = "research"        -> "browser_agent"
          [] d = "report"          -> "report_agent"
          [] d = "xp_status"       -> "xp_agent"
          [] d = "finance_status"  -> "finance_agent"
          [] d = "quest_status"    -> "quest_agent"
          [] d = "meeting_summary" -> "fireflies_agent"]

\* the payload keys the model follows; a key that is absent is None, `fields`
\* is the set of quest fields (name, purpose, result) with a non-empty value
Payload(action_type, paei, difficulty, duration_minutes, priority, fields) ==
    [action_type |-> action_type, paei |-> paei, difficulty |-> difficulty,
     duration_minutes |-> duration_minutes, priority |-> priority,
     fields |-> fields, weather_context |-> FALSE, weather_advisory |-> FALSE]

EmptyPayload == Payload(None, None, None, None, None, {})

\* origin names the statement that created the instruction; paei_context is
\* the role of the "paei_context" key, None when the key is absent
Instruction(agent, intent_name, origin, payload, paei_context) ==
    [agent |-> agent, intent |-> intent_name, origin |-> origin,
     payload |-> payload, paei_context |-> paei_context]

\* intent_to_xp_action.get(intent_name, "task_complete"), then the fallback
\* on valid_actions
XpActionOfIntent(intent_name) ==
    LET mapped == CASE intent_name = "schedule_meeting" -> "meeting_complete"
                    [] intent_name = "set_focus"        -> "deep_work_block"
                    [] intent_name = "report_viewed"    -> "reflection"
                    [] OTHER                            -> "task_complete"
    IN  IF mapped \in {"task_complete", "meeting_complete", "deep_work_block",
                       "habit_streak", "reflection"}
        THEN mapped ELSE "task_complete"

\* payload.get(key, default) on an Optional-valued key
OrElse(o, default) == IF IsNone(o) THEN Some(default) ELSE o

\* the xp_agent branch in full; for the other agents the style knobs, the
\* parsed time and the energy flags are further keys the model does not follow
_build_agent_payload(agent, sub, role) ==
    IF agent = "xp_agent"
    THEN [sub.payload EXCEPT
            !.action_type      = Some(XpActionOfIntent(sub.intent)),
            !.paei             = Some(role),
            !.difficulty       = OrElse(sub.payload.difficulty, "medium"),
            !.duration_minutes = OrElse(sub.payload.duration_minutes, 60),
            !.priority         = OrElse(sub.payload.priority, "medium")]
    ELSE sub.payload

\* the loop over the sub-intents (step 7): unknown categories are skipped
RECURSIVE PrimaryInstructions(_, _)
PrimaryInstructions(intents, role) ==
    IF intents = <<>> THEN <<>>
    ELSE LET sub == Head(intents) IN
         IF sub.category \notin DOMAIN CATEGORY_AGENT_MAP
         THEN PrimaryInstructions(Tail(intents), role)
         ELSE LET agent == CATEGORY_AGENT_MAP[sub.category]
              IN  <<Instruction(agent, sub.intent, "subintent",
                                _build_agent_payload(agent, sub, role), Some(role))>>
                  \o PrimaryInstructions(Tail(intents), role)

AgentsOf(instructions) == {instructions[i].agent : i \in 1..Len(instructions)}

\* weather is the cached snapshot: "none" (empty), "perfect_kite",
\* "high_rain" (rain_risk high or very_high) or "calm"
_apply_weather_decisions(instructions, weather) ==
    IF weather = "none" THEN instructions
    ELSE LET tagged ==
               [i \in 1..Len(instructions) |->
                  IF instructions[i].agent = "calendar_agent"
                  THEN [instructions[i] EXCEPT !.payload.weather_context = TRUE]
                  ELSE instructions[i]]
         IN  IF weather = "perfect_kite"
             THEN Append(tagged,
                         Instruction("calendar_agent", "block_time_for_activity",
                                     "condition",
                                     [Payload(None, None, None, Some(180), Some("high"), {})
                                        EXCEPT !.weather_context = TRUE],
                                     None))
             ELSE IF weather = "high_rain"
             THEN [i \in 1..Len(tagged) |->
                     IF tagged[i].agent = "calendar_agent"
                     THEN [tagged[i] EXCEPT !.payload.weather_advisory = TRUE]
                     ELSE tagged[i]]
             ELSE tagged

\* step 7.5: instructions.insert(0, ...)
InsertMorningCheck(instructions, force_morning_check) ==
    IF force_morning_check
    THEN <<Instruction("weather_agent", "morning_daily_check", "morning",
                       Payload(None, None, None, None, Some("high"), {}), None)>>
         \o instructions
    ELSE instructions

_add_proactive_agents(instructions, role, whoop_recovery) ==
    LET w == IF role \in {"P", "E"} /\ whoop_recovery > 60
             THEN Append(instructions,
                         Instruction("weather_agent", "proactive_schedule_check",
                                     "proactive", EmptyPayload, None))
             ELSE instructions
    IN  IF "calendar_agent" \in AgentsOf(w)
        THEN Append(w, Instruction("fireflies_agent", "auto_join_meeting",
                                   "proactive", EmptyPayload, None))
        ELSE w

XpActionOfAgents(activated) ==
    IF "calendar_agent" \in activated THEN "meeting_complete"
    ELSE IF "focus_agent" \in activated THEN "deep_work_block"
    ELSE "task_complete"

\* returns the instruction list and the (mutated) activated_agents set
_add_xp_agent_if_needed(instructions, role, activated) ==
    LET action_agents == activated \ {"xp_agent", "weather_agent"}
    IN  IF action_agents # {} /\ "xp_agent" \notin activated
        THEN [instructions |->
                Append(instructions,
                       Instruction("xp_agent", "award_xp", "point",
                                   Payload(Some(XpActionOfAgents(activated)), Some(role),
                                           Some("medium"), Some(60), Some("medium"), {}),
                                   None)),
              activated |-> activated \cup {"xp_agent"}]
        ELSE [instructions |-> instructions, activated |-> activated]

\* steps 7 to 9 of ParentNode.__call__
CompileInstructions(intents, role, weather, force_morning_check, whoop_recovery) ==
    LET primary   == PrimaryInstructions(intents, role)
        weathered == _apply_weather_decisions(primary, weather)
        morning   == InsertMorningCheck(weathered, force_morning_check)
        proactive == _add_proactive_agents(morning, role, whoop_recovery)
    IN  _add_xp_agent_if_needed(proactive, role, AgentsOf(primary))

\* f"read_{domain}"
ReadIntent(domain) ==
    CASE domain = "plan_report"     -> "read_plan_report"
      [] domain = "weather"         -> "read_weather"
      [] domain = "research"        -> "read_research"
      [] domain = "report"          -> "read_report"
      [] domain = "xp_status"       -> "read_xp_status"
      [] domain = "finance_status"  -> "read_finance_status"
      [] domain = "quest_status"    -> "read_quest_status"
      [] domain = "meeting_summary" -> "read_meeting_summary"
      [] OTHER                      -> "read_"

\* _handle_read_only: unknown domains are skipped
RECURSIVE _handle_read_only(_)
_handle_read_only(read_domains) ==
    IF read_domains = <<>> THEN <<>>
    ELSE LET domain == Head(read_domains) IN
         IF domain \notin DOMAIN READ_DOMAIN_AGENT_MAP
         THEN _handle_read_only(Tail(read_domains))
         ELSE LET agent   == READ_DOMAIN_AGENT_MAP[domain]
                  payload == IF agent = "xp_agent"
                             THEN Payload(Some("report_viewed"), None, Some("easy"),
                                          Some(5), Some("low"), {})
                             ELSE EmptyPayload
              IN  <<Instruction(agent, ReadIntent(domain), "read", payload, None)>>
                  \o _handle_read_only(Tail(read_domains))

\* administrative / involves_people come from the categories, the other
\* signals from the words of the text
_extract_paei_signals(intents, words) ==
    words
    \cup (IF \E i \in 1..Len(intents) : intents[i].category \in {"task", "map", "finance"}
          THEN {"administrative"} ELSE {})
    \cup (IF \E i \in 1..Len(intents) :
              intents[i].category \in {"email", "calendar", "meeting", "contact", "fireflies"}
          THEN {"involves_people"} ELSE {})

\* _assess_deadline_pressure: urgent_tasks counts the High, not completed tasks
_assess_deadline_pressure(urgent_tasks) ==
    IF urgent_tasks >= 3 THEN "critical"
    ELSE IF urgent_tasks >= 1 THEN "high" ELSE "low"

\* state.whoop_recovery_score or 70; meta team_morale
_build_decision_context(env) ==
    [whoop_recovery    |-> IF IsNone(env.whoop) \/ Val(env.whoop) = 0 THEN 70
                           ELSE Val(env.whoop),
     team_morale       |-> env.team_morale,
     deadline_pressure |-> _assess_deadline_pressure(env.urgent_tasks)]

\* the decision ParentNode stores in state.parent_decision, with the set it
\* stores in state.activated_agents; intents are not empty here
BuildParentDecision(intents, words, env, hist) ==
    LET intent_signals == _extract_paei_signals(intents, words)
        context        == _build_decision_context(env)
        paei_decision  == decide(intent_signals, context, hist)
        quest          == IF env.notion.ok THEN env.notion.quest ELSE None
        map_           == IF env.notion.ok THEN env.notion.map ELSE None
        rpm_result     == compute_rpm_from_context(quest, map_, None)
    IN  IF rpm_result.recommendation = "block" /\ ~rpm_result.aligned
        THEN [instructions       |-> <<>>,
              paei_decision      |-> Some([role |-> paei_decision.role, xp_amount |-> 0]),
              rpm_context        |-> Some(rpm_result),
              was_blocked_by_rpm |-> TRUE,
              activated          |-> {},
              history            |-> paei_decision.history]
        ELSE LET compiled == CompileInstructions(intents, paei_decision.role,
                                                 env.weather, env.morning,
                                                 context.whoop_recovery)
             IN  [instructions       |-> compiled.instructions,
                  paei_decision      |-> Some([role |-> paei_decision.role,
                                               xp_amount |-> paei_decision.xp_amount]),
                  rpm_context        |-> Some(rpm_result),
                  was_blocked_by_rpm |-> FALSE,
                  activated          |-> compiled.activated,
                  history            |-> paei_decision.history]

(***************************************************************************)
(*                 CAPABILITY HANDLERS (app/graph/nodes)                   *)
(* A handler call yields [raised, returned, output, entry]: whether it     *)
(* raised, whether it returned a state (not None), the AgentOutput it      *)
(* added and the XP entry it persisted (None when there is none).          *)
(***************************************************************************)
\* get_instruction: the FIRST instruction that carries the agent's name
get_instruction(instructions, agent_name) ==
    LET idx == {i \in 1..Len(instructions) : instructions[i].agent = agent_name}
    IN  IF idx = {} THEN None
        ELSE Some(instructions[CHOOSE i \in idx : \A j \in idx : i <= j])

AgentOutput(agent, status, reason, missing) ==
    [agent_name |-> agent, status |-> status, reason |-> reason, missing |-> missing]

HandlerResult(raised, returned, output, entry) ==
    [raised |-> raised, returned |-> returned, output |-> output, entry |-> entry]

ReturnedState == HandlerResult(FALSE, TRUE, None, None)

ACTION_MAP ==
    [k \in {"action_complete", "task_created", "meeting_created", "focus_started",
            "email_sent", "bill_paid", "workout_completed", "meditation_completed",
            "report_viewed"} |->
        CASE k = "meeting_created"      -> "meeting_complete"
          [] k = "focus_started"        -> "deep_work_block"
          [] k = "workout_completed"    -> "health_activity"
          [] k = "meditation_completed" -> "mindfulness"
          [] k = "report_viewed"        -> "report_viewed"
          [] OTHER                      -> "task_complete"]

\* run_xp_node; notion_ok tells whether notion.create_xp succeeds
run_xp_node(instructions, activated, notion_ok) ==
    LET instruction == get_instruction(instructions, "xp_agent") IN
    IF "xp_agent" \notin activated \/ IsNone(instruction) THEN ReturnedState
    ELSE LET payload    == Val(instruction).payload
             raw_action == payload.action_type
         IN  IF IsNone(raw_action) \/ Val(raw_action) = "" THEN ReturnedState
             ELSE LET action_type == DictGet(ACTION_MAP, Val(raw_action), Val(raw_action))
                  IN  IF action_type \notin DOMAIN BASE_XP_BY_ACTION THEN ReturnedState
                      ELSE LET xp_result ==
                                 calculate_xp(
                                   [action_type       |-> action_type,
                                    paei              |-> IF IsNone(payload.paei) THEN "P"
                                                          ELSE Val(payload.paei),
                                    difficulty        |-> payload.difficulty,
                                    duration_minutes  |-> payload.duration_minutes,
                                    priority          |-> payload.priority,
                                    paei_distribution |-> None,
                                    recovery_score    |-> None])
                           IN  IF ~xp_result.ok THEN ReturnedState
                               ELSE HandlerResult(FALSE, TRUE,
                                      Some(AgentOutput("xp_agent", "success", "", <<>>)),
                                      IF notion_ok
                                      THEN Some([amount      |-> xp_result.xp,
                                                 paei        |-> payload.paei,
                                                 action_type |-> action_type,
                                                 raw_action  |-> Val(raw_action)])
                                      ELSE None)

RequiredQuestFields == <<"name", "purpose", "result">>

\* run_quest_node: extract_quest_fields gives every required field a value
\* unless the text is blank; the Notion failure is caught inside the handler
run_quest_node(instructions, activated, user_text) ==
    LET instruction == get_instruction(instructions, "quest_agent") IN
    IF "quest_agent" \notin activated \/ IsNone(instruction) THEN ReturnedState
    ELSE LET fields  == Val(instruction).payload.fields
             present == IF user_text # "" /\ Strip(user_text) # ""
                        THEN {"name", "purpose", "result"} ELSE fields
             IsMissing(f) == f \notin present
             missing == SelectSeq(RequiredQuestFields, IsMissing)
         IN  IF missing # <<>>
             THEN HandlerResult(FALSE, TRUE,
                    Some(AgentOutput("quest_agent", "blocked",
                                     "missing_required_fields", missing)), None)
             ELSE HandlerResult(FALSE, TRUE,
                    Some(AgentOutput("quest_agent", "quest_created", "", <<>>)), None)

\* handlers that start with `if "<agent>" not in state.activated_agents: return state`
GuardedAgents == {"calendar_agent", "contact_agent", "email_sender_agent", "map_agent",
                  "plan_report_agent", "quest_agent", "xp_agent"}

HandlerOutcomes == {"ok", "raise"}

\* a runner of ExecutionRouter.agent_runners applied to the state; outcome is
\* what the external collaborator behind the handler does
RunAgent(agent, outcome, instructions, activated, user_text) ==
    CASE agent = "xp_agent"    -> run_xp_node(instructions, activated, outcome = "ok")
      [] agent = "quest_agent" -> run_quest_node(instructions, activated, user_text)
      [] OTHER ->
           IF agent \in GuardedAgents /\ agent \notin activated THEN ReturnedState
           ELSE IF outcome = "raise" THEN HandlerResult(TRUE, FALSE, None, None)
           ELSE HandlerResult(FALSE, TRUE, Some(AgentOutput(agent, "done", "", <<>>)), None)

(***************************************************************************)
(*                 EXECUTION ROUTER (ExecutionRouter.__call__)             *)
(***************************************************************************)
\* keys of ExecutionRouter.agent_runners
AgentRunners == {"calendar_agent", "task_agent", "email_agent", "email_sender_agent",
                 "contact_agent", "quest_agent", "map_agent", "plan_report_agent",
                 "research_agent", "browser_agent", "focus_agent", "weather_agent",
                 "meeting_agent", "fireflies_agent", "report_agent", "xp_agent"}

NonPrimaryAgents == {"xp_agent", "weather_agent", "fireflies_agent"}

IsPrimary(i) == i.agent \notin NonPrimaryAgents
IsProactive(i) == i.agent \in {"weather_agent", "fireflies_agent"}

PhaseItems(phase, instructions) ==
    [k \in 1..Len(instructions) |-> [phase |-> phase, instruction |-> instructions[k]]]

\* mutant: the advisory loop placed ahead of the primary loop
RouterPlanAdvisoryFirst(instructions) ==
    LET xp == get_instruction(instructions, "xp_agent")
    IN  PhaseItems("proactive", SelectSeq(instructions, IsProactive))
        \o PhaseItems("primary", SelectSeq(instructions, IsPrimary))
        \o (IF IsNone(xp) THEN <<>> ELSE <<[phase |-> "xp", instruction |-> Val(xp)]>>)

\* the three loops in the order the router runs them; the XP phase takes the
\* first xp_agent instruction only
RouterPlan(instructions) ==
    LET xp == get_instruction(instructions, "xp_agent")
    IN  PhaseItems("primary", SelectSeq(instructions, IsPrimary))
        \o PhaseItems("proactive", SelectSeq(instructions, IsProactive))
        \o (IF IsNone(xp) THEN <<>> ELSE <<[phase |-> "xp", instruction |-> Val(xp)]>>)

RouterEntry ==
    [pos |-> 1, execution_results |-> <<>>, dispatched |-> <<>>,
     propagated |-> FALSE, summary |-> None]

\* one runner call: the instruction the router took from its list, and the
\* instruction the handler worked on, which it looks up itself with
\* get_instruction (None when the handler returned at its guards)
Dispatched(item, result, instructions) ==
    LET own == get_instruction(instructions, item.instruction.agent)
    IN  [agent |-> item.instruction.agent, intent |-> item.instruction.intent,
         origin |-> item.instruction.origin,
         phase |-> item.phase, raised |-> result.raised,
         executed |-> IF result = ReturnedState \/ IsNone(own) THEN None
                      ELSE Some([intent |-> Val(own).intent,
                                 origin |-> Val(own).origin])]

\* mutant: the primary loop without its try/except
PrimaryOutcomeNoCatch(r, item, result) ==
    IF result.raised
    THEN [r EXCEPT !.propagated = TRUE]
    ELSE IF result.returned
    THEN [r EXCEPT !.execution_results =
             Append(@, [agent |-> item.instruction.agent, success |-> TRUE,
                        paei_role |-> IF IsNone(item.instruction.paei_context) THEN "P"
                                      ELSE Val(item.instruction.paei_context)])]
    ELSE r

\* the try/except of the primary loop
PrimaryOutcome(r, item, result) ==
    IF result.raised
    THEN [r EXCEPT !.execution_results =
             Append(@, [agent |-> item.instruction.agent, success |-> FALSE,
                        paei_role |-> ""])]
    ELSE IF result.returned
    THEN [r EXCEPT !.execution_results =
             Append(@, [agent |-> item.instruction.agent, success |-> TRUE,
                        paei_role |-> IF IsNone(item.instruction.paei_context) THEN "P"
                                      ELSE Val(item.instruction.paei_context)])]
    ELSE r

\* state.meta["execution_summary"]
ExecutionSummary(execution_results) ==
    LET IsSuccess(e) == e.success
    IN  [total_agents |-> Len(execution_results),
         successful   |-> Len(SelectSeq(execution_results, IsSuccess))]

(***************************************************************************)
(*                 ONE TURN: PresentOSGraph.invoke                         *)
(* A session's turns are sequential.  Every turn runs on a fresh           *)
(* PresentOSState that carries the session's ConversationState; the        *)
(* process-wide decision_history persists.  `observed` records, for the    *)
(* properties, the conversation status at turn entry, the components the   *)
(* turn invoked, the goal context the gate saw, where a goal/plan fetch     *)
(* failed, and the current                                                 *)
(* slot-filling cycle (fields at activation, answers consumed, fields      *)
(* asked for, Complete transitions).                                       *)
(***************************************************************************)
NoCycle == [fields |-> <<>>, answers |-> <<>>, requested |-> <<>>, completes |-> 0]

NoObservation ==
    [entry_status |-> "none", invoked |-> {}, goal |-> None, fetch_failed |-> {},
     cycle |-> NoCycle]

NoText == [raw |-> "", words |-> {}]

\* a session before its first turn; also the state of this part while
\* another harness runs
TurnIdle ==
    /\ pc = "idle"
    /\ turn_no = 0
    /\ conversation = NoConversation
    /\ input_text = NoText
    /\ intent = None
    /\ parent_decision = None
    /\ activated_agents = {}
    /\ agent_outputs = <<>>
    /\ router = RouterEntry
    /\ ledger = <<>>
    /\ final_response = "none"
    /\ observed = NoObservation

Instructions == IF IsNone(parent_decision) THEN <<>> ELSE Val(parent_decision).instructions

\* the cycle record after the turn-entry step took conversation to convo
CycleAfterAnswer(cycle, convo, raw) ==
    [cycle EXCEPT
       !.answers   = Append(@, raw),
       !.completes = IF convo.status = "complete" THEN @ + 1 ELSE @,
       !.requested = IF convo.status = "awaiting_user" /\ convo.missing_fields # <<>>
                     THEN Append(@, Head(convo.missing_fields)) ELSE @]

\* invoke, step 1: process_user_message and the is_slot_filling return
StartTurn(text, max_turns) ==
    /\ pc = "idle"
    /\ turn_no < max_turns
    /\ LET convo == process_user_message(conversation, text.raw) IN
       /\ conversation' = convo
       /\ pc' = IF is_slot_filling(convo) THEN "idle" ELSE "load_context"
       /\ observed' = [entry_status |-> conversation.status,
                       invoked      |-> {},
                       goal         |-> None,
                       fetch_failed |-> {},
                       cycle        |-> IF conversation.status = "awaiting_user"
                                        THEN CycleAfterAnswer(observed.cycle, convo, text.raw)
                                        ELSE observed.cycle]
    /\ turn_no' = turn_no + 1
    /\ input_text' = text
    /\ intent' = None
    /\ parent_decision' = None
    /\ activated_agents' = {}
    /\ agent_outputs' = <<>>
    /\ router' = RouterEntry
    /\ ledger' = <<>>
    /\ final_response' = "none"
    /\ UNCHANGED <<xp_vars, rpm_vars, cal_vars, paei_vars>>

\* invoke, step 2: load_context has no handler of its own, so a Notion
\* failure ends the turn in the outer except
LoadContext(ok) ==
    /\ pc = "load_context"
    /\ pc' = IF ok THEN "classify" ELSE "idle"
    /\ final_response' = IF ok THEN final_response ELSE "error"
    /\ observed' = [observed EXCEPT
                      !.invoked = @ \cup {"context_loader"},
                      !.fetch_failed = IF ok THEN @ ELSE @ \cup {"load_context"}]
    /\ UNCHANGED <<xp_vars, rpm_vars, cal_vars, paei_vars, turn_no, conversation, input_text, intent,
                   parent_decision, activated_agents, agent_outputs, router, ledger>>

SubIntent(intent_name, category, payload) ==
    [intent |-> intent_name, category |-> category, payload |-> payload]

IntentResult(intents, read_domains) ==
    [intents |-> intents, read_domains |-> read_domains]

\* the minimal intent built when the classifier raises
FallbackIntent == IntentResult(<<SubIntent("create_task", "task", EmptyPayload)>>, <<>>)

\* invoke, step 3: classified is the classifier's result, None when it raises
Classify(classified) ==
    /\ pc = "classify"
    /\ intent' = IF IsNone(intent)
                 THEN (IF IsNone(classified) THEN Some(FallbackIntent) ELSE classified)
                 ELSE intent
    /\ pc' = "parent"
    /\ UNCHANGED <<xp_vars, rpm_vars, cal_vars, paei_vars, turn_no, conversation, input_text,
                   parent_decision, activated_agents, agent_outputs, router, ledger,
                   final_response, observed>>

\* invoke, step 4: run_parent_node.  env holds the fields of the state that
\* only this step reads (whoop, weather snapshot, urgent tasks, team morale),
\* whether the morning check is due, and what the Notion fetch returns
ParentNode(env) ==
    /\ pc = "parent"
    /\ LET intents == Val(intent).intents IN
       IF intents = <<>>
       THEN LET instructions == _handle_read_only(Val(intent).read_domains) IN
            /\ parent_decision' = Some([instructions       |-> instructions,
                                        paei_decision      |-> None,
                                        rpm_context        |-> None,
                                        was_blocked_by_rpm |-> FALSE])
            /\ activated_agents' = AgentsOf(instructions)
            /\ observed' = [observed EXCEPT !.invoked = @ \cup {"compiler"}]
            /\ UNCHANGED decision_history
       ELSE LET d     == BuildParentDecision(intents, input_text.words, env,
                                             decision_history)
                quest == IF env.notion.ok THEN env.notion.quest ELSE None
                map_  == IF env.notion.ok THEN env.notion.map ELSE None
            IN
            /\ parent_decision' = Some([instructions       |-> d.instructions,
                                        paei_decision      |-> d.paei_decision,
                                        rpm_context        |-> d.rpm_context,
                                        was_blocked_by_rpm |-> d.was_blocked_by_rpm])
            /\ activated_agents' = d.activated
            /\ decision_history' = d.history
            /\ observed' = [observed EXCEPT
                              !.invoked = @ \cup {"role_engine", "gate", "compiler"},
                              !.fetch_failed = IF env.notion.ok THEN @
                                               ELSE @ \cup {"parent_node"},
                              !.goal = Some([quest |-> quest, map |-> map_,
                                             gate  |-> compute_rpm(quest, map_, None)])]
    /\ pc' = "execute"
    /\ UNCHANGED <<xp_vars, rpm_vars, cal_vars, paei_last, paei_own, paei_calls, turn_no, conversation,
                   input_text, intent, agent_outputs, router, ledger, final_response>>

\* the router runs only for a non-empty instruction list (invoke, step 5)
RouterPending ==
    /\ pc = "execute"
    /\ Instructions # <<>>
    /\ router.pos <= Len(RouterPlan(Instructions))

NextItem == RouterPlan(Instructions)[router.pos]

AppendSome(seq, o) == IF IsNone(o) THEN seq ELSE Append(seq, Val(o))

\* what a runner call leaves in the state and in the router's locals
AfterRunner(r, item, result) ==
    /\ router' = [r EXCEPT !.pos = @ + 1,
                           !.dispatched = Append(@, Dispatched(item, result, Instructions))]
    /\ agent_outputs' = AppendSome(agent_outputs, result.output)
    /\ ledger' = AppendSome(ledger, result.entry)
    /\ observed' = [observed EXCEPT !.invoked = @ \cup {"router"}]
    \* an exception that leaves the router ends the turn (invoke, lines 95-98)
    /\ pc' = IF r.propagated THEN "idle" ELSE pc
    /\ final_response' = IF r.propagated THEN "execution_failed" ELSE final_response

NoRunner ==
    /\ router' = [router EXCEPT !.pos = @ + 1]
    /\ observed' = [observed EXCEPT !.invoked = @ \cup {"router"}]
    /\ UNCHANGED <<agent_outputs, ledger, pc, final_response>>

\* one iteration of the primary loop
DispatchPrimary(outcome) ==
    /\ RouterPending
    /\ NextItem.phase = "primary"
    /\ IF NextItem.instruction.agent \notin AgentRunners
       THEN NoRunner
       ELSE LET result == RunAgent(NextItem.instruction.agent, outcome, Instructions,
                                   activated_agents, input_text.raw)
            IN  AfterRunner(PrimaryOutcome(router, NextItem, result), NextItem, result)
    /\ UNCHANGED <<xp_vars, rpm_vars, cal_vars, paei_vars, turn_no, conversation, input_text, intent,
                   parent_decision, activated_agents>>

\* one iteration of the proactive loop: a failure is only logged
DispatchProactive(outcome) ==
    /\ RouterPending
    /\ NextItem.phase = "proactive"
    /\ IF NextItem.instruction.agent \notin AgentRunners
       THEN NoRunner
       ELSE LET result == RunAgent(NextItem.instruction.agent, outcome, Instructions,
                                   activated_agents, input_text.raw)
            IN  AfterRunner(router, NextItem, result)
    /\ UNCHANGED <<xp_vars, rpm_vars, cal_vars, paei_vars, turn_no, conversation, input_text, intent,
                   parent_decision, activated_agents>>

\* the XP phase: run_xp_node on the first xp_agent instruction
DispatchXp(notion_ok) ==
    /\ RouterPending
    /\ NextItem.phase = "xp"
    /\ LET result == run_xp_node(Instructions, activated_agents, notion_ok)
       IN  AfterRunner(router, NextItem, result)
    /\ UNCHANGED <<xp_vars, rpm_vars, cal_vars, paei_vars, turn_no, conversation, input_text, intent,
                   parent_decision, activated_agents>>

ActivatesSlotFilling(outputs) ==
    \E i \in 1..Len(outputs) :
        outputs[i].reason = "missing_required_fields" /\ outputs[i].missing # <<>>

\* the router's summary (when it ran), then invoke steps 6 to 8:
\* handle_agent_outputs and the response
FinishTurn ==
    /\ pc = "execute"
    /\ Instructions = <<>> \/ router.pos > Len(RouterPlan(Instructions))
    /\ router' = IF Instructions # <<>>
                 THEN [router EXCEPT
                         !.summary = Some(ExecutionSummary(router.execution_results))]
                 ELSE router
    /\ LET convo == handle_agent_outputs(conversation, agent_outputs) IN
       /\ conversation' = convo
       /\ observed' = IF ActivatesSlotFilling(agent_outputs)
                      THEN [observed EXCEPT
                              !.cycle = [fields    |-> convo.missing_fields,
                                         answers   |-> <<>>,
                                         requested |-> <<Head(convo.missing_fields)>>,
                                         completes |-> 0]]
                      ELSE observed
    /\ final_response' = "response"
    /\ pc' = "idle"
    /\ UNCHANGED <<xp_vars, rpm_vars, cal_vars, paei_vars, turn_no, input_text, intent, parent_decision,
                   activated_agents, agent_outputs, ledger>>

(***************************************************************************)
(* Inputs of the turn harnesses.                                           *)
(***************************************************************************)
\* what the classifier returns for a message
QuestIntent(fields) ==
    IntentResult(<<SubIntent("create_quest", "quest",
                             Payload(None, None, None, None, None, fields))>>, <<>>)

OneIntent(intent_name, category) ==
    IntentResult(<<SubIntent(intent_name, category, EmptyPayload)>>, <<>>)

XpSubIntent(action) ==
    SubIntent("log_activity", "xp", Payload(Some(action), None, None, None, None, {}))

TurnIntentInputs ==
    {OneIntent("create_task", "task"),
     OneIntent("schedule_meeting", "calendar"),
     OneIntent("set_focus", "focus"),
     OneIntent("process_finance", "finance"),
     OneIntent("check_weather", "weather"),
     OneIntent("join_meeting", "meeting"),
     OneIntent("play_music", "music"),
     QuestIntent({}),
     IntentResult(<<XpSubIntent("workout_completed")>>, <<>>),
     IntentResult(<<XpSubIntent("habit_streak"),
                    SubIntent("create_task", "task", EmptyPayload)>>, <<>>),
     IntentResult(<<SubIntent("create_task", "task", EmptyPayload),
                    SubIntent("schedule_meeting", "calendar", EmptyPayload)>>, <<>>),
     IntentResult(<<>>, <<"xp_status">>),
     IntentResult(<<>>, <<"xp_status", "plan_report">>),
     IntentResult(<<>>, <<"weather", "stocks">>),
     IntentResult(<<>>, <<>>)}

ConvIntentInputs ==
    {OneIntent("create_task", "task"),
     QuestIntent({}), QuestIntent({"name"}), QuestIntent({"name", "purpose"})}

ExpiredQuest == [status |-> "Completed", end_date |-> "past", xp_target |-> 0]
StalledQuest == [status |-> "Not Started", end_date |-> "none", xp_target |-> 0]
ActiveQuest == [status |-> "In Progress", end_date |-> "future", xp_target |-> 500]
ActiveMap == [priority |-> "High", type |-> "Execution"]

NotionInputs ==
    {[ok |-> FALSE, quest |-> None, map |-> None],
     [ok |-> TRUE, quest |-> None, map |-> None],
     [ok |-> TRUE, quest |-> Some(ExpiredQuest), map |-> None],
     [ok |-> TRUE, quest |-> Some(StalledQuest), map |-> None],
     [ok |-> TRUE, quest |-> Some(ActiveQuest), map |-> Some(ActiveMap)]}

TurnEnvInputs ==
    [whoop        : {None, Some(30)},
     weather      : {"none", "perfect_kite", "high_rain"},
     morning      : BOOLEAN,
     urgent_tasks : {0, 3},
     team_morale  : {"stable"},
     notion       : NotionInputs]

ConvEnvInputs ==
    [whoop        : {None},
     weather      : {"none"},
     morning      : {FALSE},
     urgent_tasks : {0},
     team_morale  : {"stable"},
     notion       : {[ok |-> TRUE, quest |-> None, map |-> None]}]

MaxTurns == 1
MaxConvTurns == 4

(***************************************************************************)
(*                             SPECIFICATIONS                              *)
(***************************************************************************)
XpNext == CallCalculateXp /\ UNCHANGED <<rpm_vars, cal_vars, paei_vars, turn_vars>>

InitXP == XpInit /\ RpmIdle /\ CalIdle /\ PaeiIdle /\ TurnIdle

SpecXP == InitXP /\ [][XpNext]_vars

RpmNext ==
    \/ CallComputeRpm /\ UNCHANGED <<xp_vars, cal_vars, paei_vars, turn_vars>>
    \/ \E o \in {"quest", "map_", "task"} : \E k \in RpmKeys(o) :
          \E v \in RpmValues(o, k) :
             /\ CallComputeRpmChanged(o, k, v)
             /\ UNCHANGED <<xp_vars, cal_vars, paei_vars, turn_vars>>

InitRPM == RpmInit /\ XpIdle /\ CalIdle /\ PaeiIdle /\ TurnIdle

SpecRPM == InitRPM /\ [][RpmNext]_vars

CalNext ==
    \/ GetFreeSlots /\ UNCHANGED <<xp_vars, rpm_vars, paei_vars, turn_vars>>
    \/ \E google_ok \in BOOLEAN :
          ScheduleTask(google_ok) /\ UNCHANGED <<xp_vars, rpm_vars, paei_vars, turn_vars>>
    \/ \E google_ok \in BOOLEAN :
          CreateEvent(google_ok) /\ UNCHANGED <<xp_vars, rpm_vars, paei_vars, turn_vars>>

InitCal ==
    /\ cal_in \in CalInputs
    /\ cal_free = <<>>
    /\ cal_out = <<>>
    /\ cal_events = <<>>
    /\ cal_pc = "call"
    /\ XpIdle /\ RpmIdle /\ PaeiIdle /\ TurnIdle

SpecCal == InitCal /\ [][CalNext]_vars

PaeiNext == PaeiTurn /\ UNCHANGED <<xp_vars, rpm_vars, cal_vars, turn_vars>>

InitPAEI == PaeiInit /\ XpIdle /\ RpmIdle /\ CalIdle /\ TurnIdle

SpecPAEI == InitPAEI /\ [][PaeiNext]_vars

TurnNext ==
    \/ \E text \in Texts : StartTurn(text, MaxTurns)
    \/ \E ok \in BOOLEAN : LoadContext(ok)
    \/ \E classified \in {None} \cup {Some(c) : c \in TurnIntentInputs} :
          Classify(classified)
    \/ \E env \in TurnEnvInputs : ParentNode(env)
    \/ \E outcome \in HandlerOutcomes : DispatchPrimary(outcome)
    \/ \E outcome \in HandlerOutcomes : DispatchProactive(outcome)
    \/ \E notion_ok \in BOOLEAN : DispatchXp(notion_ok)
    \/ FinishTurn

InitTurn == TurnIdle /\ XpIdle /\ RpmIdle /\ CalIdle /\ PaeiIdle

SpecTurn == InitTurn /\ [][TurnNext]_vars

ConvNext ==
    \/ \E text \in Texts : StartTurn(text, MaxConvTurns)
    \/ \E ok \in BOOLEAN : LoadContext(ok)
    \/ \E classified \in {None} \cup {Some(c) : c \in ConvIntentInputs} :
          Classify(classified)
    \/ \E env \in ConvEnvInputs : ParentNode(env)
    \/ \E outcome \in HandlerOutcomes : DispatchPrimary(outcome)
    \/ \E outcome \in HandlerOutcomes : DispatchProactive(outcome)
    \/ \E notion_ok \in BOOLEAN : DispatchXp(notion_ok)
    \/ FinishTurn

InitConv == TurnIdle /\ XpIdle /\ RpmIdle /\ CalIdle /\ PaeiIdle

SpecConv == InitConv /\ [][ConvNext]_vars

\* handle_agent_outputs on its own: the outcome lists a router phase may
\* leave in state.agent_outputs, each output one of a quest signal, a signal
\* of another capability, a signal without declared fields (map_agent) and a
\* plain result
MaxOutputs == 2

OutputInputs ==
    LET outputs ==
          {AgentOutput("quest_agent", "blocked", "missing_required_fields",
                       <<"name", "purpose">>),
           AgentOutput("contact_agent", "blocked", "missing_required_fields",
                       <<"email">>),
           AgentOutput("map_agent", "error", "missing_required_fields", <<>>),
           AgentOutput("task_agent", "done", "", <<>>)}
    IN  UNION {[1..n -> outputs] : n \in 1..MaxOutputs}

InitSlots ==
    /\ XpIdle /\ RpmIdle /\ CalIdle /\ PaeiIdle
    /\ pc = "execute"
    /\ turn_no = 1
    /\ conversation = NoConversation
    /\ input_text \in Texts
    /\ intent = Some(FallbackIntent)
    /\ parent_decision = None
    /\ activated_agents = {}
    /\ agent_outputs \in OutputInputs
    /\ router = RouterEntry
    /\ ledger = <<>>
    /\ final_response = "none"
    /\ observed = NoObservation

SlotsNext ==
    \/ FinishTurn
    \/ \E text \in Texts : StartTurn(text, MaxConvTurns)

SpecSlots == InitSlots /\ [][SlotsNext]_vars

(***************************************************************************)
(* The Point Engine as the specification states it (section 4.6), written  *)
(* independently of the translation of the code above.                     *)
(***************************************************************************)
StatedLookup(a) ==
    CASE a = "task_complete" -> 5 [] a = "meeting_complete" -> 3
      [] a = "deep_work_block" -> 8 [] a = "habit_streak" -> 10
      [] a = "reflection" -> 4 [] a = "report_viewed" -> 2

StatedRoleTenths(r) ==
    CASE r = "P" -> 12 [] r = "A" -> 10 [] r = "E" -> 13 [] r = "I" -> 11

StatedBonus(a) ==
    LET d == IF a.difficulty = Some("medium") THEN 2
             ELSE IF a.difficulty = Some("hard") THEN 5 ELSE 0
        m == IF IsNone(a.duration_minutes) THEN 0
             ELSE Min2(Val(a.duration_minutes) \div 30, 5)
    IN  IF a.priority = Some("high") THEN d + m + 1
        ELSE IF a.priority = Some("low") THEN Max2(d + m - 1, 0)
        ELSE d + m

StatedShare(a) ==
    IF IsNone(a.paei_distribution) \/ DOMAIN Val(a.paei_distribution) = {}
    THEN 30
    ELSE IF Upper(a.paei) \in DOMAIN Val(a.paei_distribution)
         THEN Val(a.paei_distribution)[Upper(a.paei)] ELSE 0

StatedBalanceTenths(a) ==
    IF StatedShare(a) > 45 THEN 7 ELSE IF StatedShare(a) < 15 THEN 13 ELSE 10

StatedRecoveryTenths(a) ==
    IF ~IsNone(a.recovery_score) /\ Val(a.recovery_score) < 40
    THEN (IF Upper(a.paei) = "P" THEN 6
          ELSE IF Upper(a.paei) = "I" THEN 12 ELSE 10)
    ELSE 10

XpValidInput(a) == a.action_type \in XpActions /\ Upper(a.paei) \in Roles

\* the scenario of the claim: task_complete, Entrepreneur, no bonuses,
\* role_distribution[Entrepreneur] = 0.5
XpScenario(a) ==
    /\ a.action_type = "task_complete" /\ a.paei = "E"
    /\ IsNone(a.difficulty) /\ IsNone(a.duration_minutes) /\ IsNone(a.priority)
    /\ a.paei_distribution = Some([r \in {"E"} |-> 50])
    /\ IsNone(a.recovery_score)

\* C9 as stated: for every valid input the points are
\* max(1, round((lookup x role_multiplier + bonus) x balance x recovery)),
\* the product being rounded once, at the end.
C9_RoundedOnce ==
    (xp_pc = "done" /\ XpValidInput(xp_in)) =>
        /\ xp_out.ok
        /\ xp_out.xp =
             Max2(RoundHalfEven(
                    (StatedLookup(xp_in.action_type) * StatedRoleTenths(Upper(xp_in.paei))
                       + 10 * StatedBonus(xp_in))
                    * StatedBalanceTenths(xp_in) * StatedRecoveryTenths(xp_in), 1000), 1)

\* C9 amended: the role-scaled base is rounded to an integer (half to even)
\* before the bonus is added, and the product with the two multipliers is
\* rounded again: points = max(1, round((round(lookup x role_multiplier) +
\* bonus) x balance x recovery)); in the scenario this is
\* round(round(5 x 1.3) x 0.7) = round(6 x 0.7) = 4.
C9_RoundedTwice ==
    (xp_pc = "done" /\ XpValidInput(xp_in)) =>
        /\ xp_out.ok
        /\ xp_out.xp =
             Max2(RoundHalfEven(
                    (RoundHalfEven(StatedLookup(xp_in.action_type)
                                     * StatedRoleTenths(Upper(xp_in.paei)), 10)
                       + StatedBonus(xp_in))
                    * StatedBalanceTenths(xp_in) * StatedRecoveryTenths(xp_in), 100), 1)
        /\ XpScenario(xp_in) => xp_out.xp = 4

C9_Witness ==
    xp_pc = "done" /\ XpScenario(xp_in) /\ xp_out.ok /\ xp_out.xp = 4

\* C11: Point Engine floor: for every valid action_type and role and every
\* combination of difficulty, duration, priority, role distribution and
\* recovery score, calculate_xp succeeds and the points are an integer >= 1;
\* an unknown action_type or role is a validation failure, never a default.
C11_PointsAtLeastOne ==
    xp_pc = "done" =>
        /\ XpValidInput(xp_in) =>
              xp_out.ok /\ xp_out.xp \in Nat /\ xp_out.xp >= 1
        /\ ~XpValidInput(xp_in) => ~xp_out.ok

\* the case the claim singles out, at the bottom of the range: low priority
\* with nothing to subtract from, a dominant role and low recovery
C11_Witness ==
    /\ xp_pc = "done" /\ XpValidInput(xp_in)
    /\ xp_in.action_type = "report_viewed" /\ Upper(xp_in.paei) = "P"
    /\ xp_in.priority = Some("low") /\ xp_out.bonus = 0
    /\ BalanceMultiplier(xp_in.paei_distribution, "P") = 7
    /\ RecoveryMultiplier(xp_in.recovery_score, "P") = 6
    /\ xp_out.xp = 1

(***************************************************************************)
(*                CLAIMS ABOUT THE GOAL-ALIGNMENT GATE                     *)
(***************************************************************************)
\* C12: Goal-Alignment Gate range: for every combination of optional goal
\* (any status, end date, point target), optional plan (any priority and
\* type) and optional task signal, the score returned by compute_rpm lies
\* in [0.1, 1.0] (10..100 hundredths).
C12_ScoreInRange ==
    /\ rpm_pc \in {"called", "done"} =>
          rpm_out.first.alignment_score \in 10..100
    /\ rpm_pc = "done" => rpm_out.second.alignment_score \in 10..100

\* a call whose contributions add up to more than 1.0 and is clamped
C12_Witness ==
    /\ rpm_pc = "called"
    /\ 50 + QuestContribution(rpm_in.quest) + MapContribution(rpm_in.map_)
          + TaskContribution(rpm_in.task) > 100
    /\ rpm_out.first.alignment_score = 100

\* the keys in which the dicts a and b differ; an absent dict has no key set
ChangedKeys(a, b) ==
    IF IsNone(b) THEN {}
    ELSE {k \in DOMAIN Val(b) :
            Val(b)[k] # (IF IsNone(a) THEN Unset(k) ELSE Val(a)[k])}

\* The contribution of one attribute as section 4.2 states it, in hundredths.
StatedContribution(k, v) ==
    CASE k = "status"    -> IF v = "In Progress" THEN 30 ELSE -10
      [] k = "end_date"  -> IF v \in {"today", "future"} THEN 15
                            ELSE IF v = "past" THEN -20 ELSE 0
      [] k = "xp_target" -> IF v > 0 THEN 10 ELSE 0
      [] k = "priority"  -> IF v = "High" THEN 25 ELSE IF v = "Medium" THEN 15 ELSE 5
      [] k = "type"      -> IF v = "Execution" THEN 15 ELSE 8
      [] k = "source"    -> IF v = "Voice" THEN 8 ELSE 3
      [] k = "task_type" -> 0

\* b is a with exactly one attribute changed so that it gains a positive
\* contribution: the goal becomes active, gets a live end date or a point
\* target, the plan's priority or type moves up, the task becomes
\* user-originated or high priority
GainsContribution(a, b) ==
    /\ \E o \in {"quest", "map_", "task"} : \E k \in ChangedKeys(a[o], b[o]) :
          LET old == IF IsNone(a[o]) THEN Unset(k) ELSE Val(a[o])[k]
              new == Val(b[o])[k]
          IN  IF o = "task" /\ k = "priority"
              THEN new = "High"
              ELSE /\ StatedContribution(k, new) > 0
                   /\ StatedContribution(k, new) > StatedContribution(k, old)

\* C13: Goal-Alignment Gate monotonicity: changing exactly one attribute of
\* an input so that it gains a positive contribution, all other attributes
\* staying fixed, never yields a lower score than the input without that
\* contribution.
C13_GainNeverLowersScore ==
    (rpm_pc = "done" /\ GainsContribution(rpm_in, Val(rpm_alt))) =>
        rpm_out.second.alignment_score >= rpm_out.first.alignment_score

\* an inactive goal becomes active and the score rises
C13_Witness ==
    /\ rpm_pc = "done" /\ GainsContribution(rpm_in, Val(rpm_alt))
    /\ ~IsNone(rpm_in.quest) /\ Val(rpm_in.quest).status = "Completed"
    /\ Val(Val(rpm_alt).quest).status = "In Progress"
    /\ rpm_out.second.alignment_score > rpm_out.first.alignment_score

(***************************************************************************)
(*                 CLAIMS ABOUT THE CALENDAR SERVICE                       *)
(***************************************************************************)
\* the busy list is in chronological order and lies inside the window
OrderedInsideWindow(a) ==
    /\ \A i \in DOMAIN a.busy : a.now <= a.busy[i].start /\ a.busy[i].end <= a.deadline
    /\ \A i \in 1..(Len(a.busy) - 1) : a.busy[i].start <= a.busy[i + 1].start

\* The maximal sub-intervals of the window that no busy interval covers and
\* that are at least the requested duration long, defined from the busy
\* set alone.
MaximalFreeGaps(a) ==
    LET B      == {a.busy[i] : i \in DOMAIN a.busy}
        points == {a.now, a.deadline} \cup {b.start : b \in B} \cup {b.end : b \in B}
    IN  {g \in [start : points, end : points] :
           /\ a.now <= g.start /\ g.start < g.end /\ g.end <= a.deadline
           /\ \A b \in B : b.end <= g.start \/ g.end <= b.start
           /\ g.start = a.now \/ \E b \in B : b.start < g.start /\ g.start <= b.end
           /\ g.end = a.deadline \/ \E b \in B : b.start <= g.end /\ g.end < b.end
           /\ g.end - g.start >= a.estimated_minutes}

\* C15: free-gap computation: for a chronologically ordered list of busy
\* intervals inside the search window, _get_free_slots emits exactly the
\* maximal sub-intervals of the window not covered by any busy interval
\* whose length is >= the requested duration, in chronological order; busy
\* 09:00-12:00 in the window 09:00-18:00 with 30 minutes requested yields
\* exactly the gap 12:00-18:00.
C15_FreeSlotsAreTheMaximalGaps ==
    (cal_pc # "call" /\ cal_pc # "idle" /\ OrderedInsideWindow(cal_in)) =>
        /\ {cal_free[i] : i \in DOMAIN cal_free} = MaximalFreeGaps(cal_in)
        /\ \A i \in 1..(Len(cal_free) - 1) : cal_free[i].end <= cal_free[i + 1].start
        /\ (/\ cal_in.busy = <<[start |-> 540, end |-> 720]>>
            /\ cal_in.now = 540 /\ cal_in.deadline = 1080
            /\ cal_in.estimated_minutes = 30)
           => cal_free = <<[start |-> 720, end |-> 1080]>>

\* two busy intervals, the second inside the first, and a gap on either side
C15_Witness ==
    /\ cal_pc = "free" /\ OrderedInsideWindow(cal_in)
    /\ Len(cal_in.busy) = 2
    /\ cal_in.busy[2].end < cal_in.busy[1].end
    /\ Len(cal_free) = 2

\* C29: free-gap soundness: for any list of busy intervals returned by the
\* free/busy source, in whatever order and with any overlaps, no free gap
\* emitted by _get_free_slots intersects any busy interval of the list, and
\* every gap lies inside the search window.
C29_FreeGapsAvoidBusy ==
    (cal_pc # "call" /\ cal_pc # "idle") =>
        \A i \in DOMAIN cal_free :
            /\ cal_in.now <= cal_free[i].start
            /\ cal_free[i].end <= cal_in.deadline
            /\ \A k \in DOMAIN cal_in.busy :
                  \/ cal_in.busy[k].end <= cal_free[i].start
                  \/ cal_free[i].end <= cal_in.busy[k].start

\* C14: Slot Optimizer result: any slot schedule_task takes from the
\* optimizer is fully contained in one of the computed free gaps and is at
\* least the requested duration long; when no free gap of sufficient length
\* exists the result of schedule_task is "deferred" and no calendar event is
\* created.
C14_SlotInsideGapOrDeferred ==
    \A n \in DOMAIN cal_out :
        cal_out[n].op = "schedule_task" =>
            /\ ~IsNone(cal_out[n].slot) =>
                 LET slot == Val(cal_out[n].slot) IN
                 /\ \E i \in DOMAIN cal_free :
                       cal_free[i].start <= slot.start /\ slot.end <= cal_free[i].end
                 /\ slot.end - slot.start >= cal_in.estimated_minutes
            /\ cal_out[n].action = "deferred" => IsNone(cal_out[n].slot)
            /\ (\/ cal_free = <<>>
                \/ OrderedInsideWindow(cal_in) /\ MaximalFreeGaps(cal_in) = {})
               => cal_out[n].action = "deferred" /\ cal_events = <<>>

\* a slot is booked although an earlier free gap exists
C14_Witness ==
    /\ cal_pc = "done" /\ cal_out[1].op = "schedule_task"
    /\ cal_out[1].action = "blocked_time"
    /\ Len(cal_free) >= 2
    /\ Val(cal_out[1].slot).start = cal_free[2].start
    /\ Len(cal_events) = 1 /\ cal_events[1].start = cal_free[2].start

\* C19: idempotent create dispatch: dispatching the same create-type
\* instruction (calendar event creation or time blocking) twice, as in a
\* retry, carries the same idempotency token both times and results in at
\* most one external event.
C19_RetryCreatesAtMostOneEvent ==
    cal_pc = "retried" =>
        /\ (~IsNone(cal_out[1].key) /\ ~IsNone(cal_out[2].key))
              => cal_out[1].key = cal_out[2].key
        /\ Len(cal_events) <= 1

(***************************************************************************)
(*                     CLAIMS ABOUT THE ROLE ENGINE                        *)
(***************************************************************************)
\* C3: session isolation of RoleHistory: the role chosen for a turn of a
\* session is the role the engine derives from that session's own signals,
\* context and own past role assignments; turns of the other session cannot
\* change it.
C3_SessionIsolation ==
    paei_last.called =>
        paei_last.role =
            _apply_context_adjustments(paei_last.base_role, paei_last.context,
                                       paei_last.own_before)

\* C7: if deadline_pressure = critical the final role is Producer, for every
\* base role, recovery score, morale value and RoleHistory content.
C7_CriticalForcesProducer ==
    (paei_last.called /\ paei_last.context.deadline_pressure = "critical")
        => paei_last.role = "P"

\* C8: whenever recovery < 40, the base role is Producer and the deadline
\* pressure is not critical, the final role is Integrator, for every morale
\* value and every RoleHistory content.
C8_LowRecoveryOverride ==
    (/\ paei_last.called
     /\ paei_last.context.whoop_recovery < 40
     /\ paei_last.base_role = "P"
     /\ paei_last.context.deadline_pressure # "critical")
        => paei_last.role = "I"

\* the scenario of C8 (recovery 30, base Producer, no critical deadline,
\* stable morale), decided on a history long enough for rebalancing
C8_Witness ==
    /\ paei_last.called
    /\ paei_last.context.whoop_recovery = 30
    /\ paei_last.base_role = "P"
    /\ paei_last.context.deadline_pressure = "low"
    /\ paei_last.context.team_morale = "stable"
    /\ Len(paei_last.history_before) >= 20
    /\ paei_last.role = "I"

\* C23: rebalancing rule: when none of the recovery, critical-deadline and
\* fragile-morale overrides applies, the final role is the least-represented
\* role of RoleHistory if the history has at least 20 entries and that role's
\* share is below 0.15, and is the signal-derived base role otherwise; with
\* fewer than 20 entries rebalancing never changes the role.
C23_RebalancingRule ==
    (/\ paei_last.called
     /\ ~(paei_last.context.whoop_recovery < 40 /\ paei_last.base_role = "P")
     /\ paei_last.context.deadline_pressure # "critical"
     /\ paei_last.context.team_morale # "fragile")
        => LET h        == paei_last.history_before
               Count(r) == Cardinality({i \in 1..Len(h) : h[i] = r})
               Least    == {r \in Roles : \A q \in Roles : Count(r) <= Count(q)}
           IN  IF Len(h) >= 20 /\ \E r \in Least : Count(r) * 100 < 15 * Len(h)
               THEN paei_last.role \in Least
               ELSE paei_last.role = paei_last.base_role

\* a decision without override on a history of 20 entries whose least role
\* holds 2 of them (10%) and is not the base role: the role is rebalanced
C23_Witness ==
    /\ paei_last.called
    /\ paei_last.context.whoop_recovery = 40
    /\ paei_last.context.deadline_pressure = "low"
    /\ paei_last.context.team_morale = "stable"
    /\ Len(paei_last.history_before) = 20
    /\ \E r \in Roles :
          /\ Cardinality({i \in 1..20 : paei_last.history_before[i] = r}) = 2
          /\ paei_last.role = r
          /\ paei_last.base_role # r

\* C24: RoleHistory bound: RoleHistory holds at most 100 entries; each
\* decision appends exactly one entry, the final (post-override) role, and
\* when the history is full the oldest entry is dropped, so the history is
\* always the last min(k, 100) final roles in decision order.
C24_HistoryKeepsLast100 ==
    /\ Len(decision_history) <= 100
    /\ paei_last.called =>
          LET all == Append(paei_last.history_before, paei_last.role)
              n   == Len(all)
          IN  decision_history = SubSeq(all, IF n > 100 THEN n - 99 ELSE 1, n)

\* a decision taken on a full history whose newest entry differs from its
\* oldest: the oldest entry is gone and the newest two are kept in order
C24_Witness ==
    /\ paei_last.called
    /\ Len(paei_last.history_before) = 100
    /\ paei_last.history_before[100] # paei_last.history_before[1]
    /\ Len(decision_history) = 100
    /\ decision_history[99] = paei_last.history_before[100]
    /\ decision_history[100] = paei_last.role

(***************************************************************************)
(* Properties of the turn pipeline.                                        *)
(***************************************************************************)
NoDuplicates(seq) == \A i, j \in 1..Len(seq) : seq[i] = seq[j] => i = j

IsPrefix(s, t) == Len(s) <= Len(t) /\ \A i \in 1..Len(s) : s[i] = t[i]

C2_XpInstructionLast ==
    \A i \in 1..Len(Instructions) :
        Instructions[i].agent = "xp_agent" => i = Len(Instructions)

RaisedIn(phases) ==
    LET Hit(d) == d.raised /\ d.phase \in phases
        seq    == SelectSeq(router.dispatched, Hit)
    IN  [i \in 1..Len(seq) |-> seq[i].agent]

FailedOutcomes ==
    LET Failed(e) == ~e.success
        seq       == SelectSeq(router.execution_results, Failed)
    IN  [i \in 1..Len(seq) |-> seq[i].agent]

\* the dispatches a batch gets when no handler raises: every instruction with
\* a registered handler, primary ones first, then advisory ones, then the
\* first point instruction
ExpectedDispatches ==
    LET HasRunner(item) == item.instruction.agent \in AgentRunners
        seq == SelectSeq(RouterPlan(Instructions), HasRunner)
    IN  [i \in 1..Len(seq) |->
           [agent |-> seq[i].instruction.agent, intent |-> seq[i].instruction.intent,
            phase |-> seq[i].phase]]

ActualDispatches ==
    [i \in 1..Len(router.dispatched) |->
       [agent |-> router.dispatched[i].agent, intent |-> router.dispatched[i].intent,
        phase |-> router.dispatched[i].phase]]

\* no exception leaves the router, and the batch is dispatched as if nothing
\* had raised: in the same order and, once the turn is over, to the end
BatchRunsToCompletion ==
    /\ ~router.propagated
    /\ final_response # "execution_failed"
    /\ IsPrefix(ActualDispatches, ExpectedDispatches)
    /\ (pc = "idle" /\ Instructions # <<>>) =>
          /\ ~IsNone(router.summary)
          /\ ActualDispatches = ExpectedDispatches

\* C4 (as stated): no exception leaves the router, a failed outcome is
\* recorded for every instruction whose handler raised, and every later
\* instruction is still dispatched.
C4_EveryFailureRecorded ==
    /\ BatchRunsToCompletion
    /\ FailedOutcomes = RaisedIn({"primary", "proactive", "xp"})

\* C4 (amended): no exception leaves the router and every later instruction
\* is still dispatched; a failed outcome is recorded exactly for the primary
\* instructions whose handler raised (an advisory failure is only logged).
C4_FailureContained ==
    /\ BatchRunsToCompletion
    /\ FailedOutcomes = RaisedIn({"primary"})

\* a primary handler raised, the failure was recorded, and the batch went on
\* to an advisory handler that raised too and to the point handler
C4_Witness ==
    /\ pc = "idle"
    /\ ~IsNone(router.summary)
    /\ \E i, j, k \in 1..Len(router.dispatched) :
          /\ i < j /\ j < k
          /\ router.dispatched[i].phase = "primary" /\ router.dispatched[i].raised
          /\ router.dispatched[j].phase = "proactive" /\ router.dispatched[j].raised
          /\ router.dispatched[k].phase = "xp"
    /\ Val(router.summary).total_agents > Val(router.summary).successful

\* C5: a turn that starts AwaitingUser invokes neither the role engine, the
\* gate, the compiler nor the router, however many fields are still missing.
C5_AwaitingTurnSkipsPipeline ==
    observed.entry_status = "awaiting_user" =>
        /\ observed.invoked = {}
        /\ IsNone(parent_decision)
        /\ router.dispatched = <<>>

\* the gate's own verdict on an expired goal with no alignment signal
GateBlocks(goal) ==
    /\ ~IsNone(goal.quest)
    /\ Val(goal.quest).end_date = "past"
    /\ ~goal.gate.aligned
    /\ goal.gate.recommendation = "ask_clarify"

UnknownXpActionRequested ==
    /\ ~IsNone(intent)
    /\ \E k \in 1..Len(Val(intent).intents) :
          LET sub == Val(intent).intents[k] IN
          /\ sub.category = "xp"
          /\ ~IsNone(sub.payload.action_type)
          /\ Val(sub.payload.action_type) \notin DOMAIN BASE_XP_BY_ACTION

\* C10: a point request with an unknown action_type is never replaced by a
\* default: no points are computed (no xp_agent output) or persisted for it.
C10_UnknownActionNeverAwarded ==
    UnknownXpActionRequested =>
        /\ ledger = <<>>
        /\ \A i \in 1..Len(agent_outputs) : agent_outputs[i].agent_name # "xp_agent"

\* C16: no points for read-only turns: a turn whose classification yields
\* zero sub-intents (only read domains) never produces a point (xp_agent)
\* instruction, never runs the point handler and never persists a ledger
\* entry.
C16_ReadOnlyTurnAwardsNothing ==
    (~IsNone(intent) /\ Val(intent).intents = <<>>) =>
        /\ \A i \in 1..Len(Instructions) : Instructions[i].agent # "xp_agent"
        /\ \A i \in 1..Len(router.dispatched) : router.dispatched[i].agent # "xp_agent"
        /\ ledger = <<>>
\* C17: ExecutionSummary completeness: after the router has processed a
\* batch, every primary-phase instruction of the batch is counted in
\* ExecutionSummary.total exactly once, whether its handler succeeded, failed
\* or is missing from the registry; total equals the number of primary
\* instructions and successful <= total.
C17_SummaryCountsEveryPrimary ==
    ~IsNone(router.summary) =>
        LET primary == SelectSeq(Instructions, IsPrimary) IN
        /\ Val(router.summary).total_agents = Len(primary)
        /\ Val(router.summary).successful <= Val(router.summary).total_agents
        /\ [i \in 1..Len(router.execution_results) |-> router.execution_results[i].agent]
             = [i \in 1..Len(primary) |-> primary[i].agent]
\* C18: external unavailability of the goal context: whenever the goal/plan
\* fetch fails during a turn, the failure never aborts the turn; the turn
\* continues with an absent goal context, instructions are still compiled
\* and dispatched, and the failure is not surfaced as an error response.
C18_GoalFetchFailureContained ==
    observed.fetch_failed # {} =>
        /\ final_response # "error"
        /\ ~IsNone(observed.goal) =>
              IsNone(Val(observed.goal).quest) /\ IsNone(Val(observed.goal).map)
        /\ pc = "idle" =>
              /\ "compiler" \in observed.invoked
              /\ Instructions # <<>> => "router" \in observed.invoked
\* C20: router phase order: the handler calls of a batch are, in this order,
\* its primary instructions (in batch order), then its advisory
\* (weather/fireflies) instructions, then the point handler; the point handler
\* is called only once all of those have returned or raised, and no handler
\* is called after it.  An instruction without a registered handler has no
\* call to order.
C20_PhaseOrder ==
    LET d == router.dispatched
        PrimaryRun(i)  == IsPrimary(i) /\ i.agent \in AgentRunners
        AdvisoryRun(i) == IsProactive(i) /\ i.agent \in AgentRunners
        planned == SelectSeq(Instructions, PrimaryRun)
                   \o SelectSeq(Instructions, AdvisoryRun)
    IN  \A k \in 1..Len(d) :
          IF d[k].agent = "xp_agent"
          THEN k = Len(planned) + 1 /\ k = Len(d)
          ELSE /\ k <= Len(planned)
               /\ d[k].agent = planned[k].agent
               /\ d[k].intent = planned[k].intent

\* a finished batch whose list has an advisory instruction ahead of a primary
\* one, dispatched as primary, advisory, point
C20_Witness ==
    /\ pc = "idle"
    /\ \E i, j \in 1..Len(Instructions) :
          i < j /\ IsProactive(Instructions[i]) /\ IsPrimary(Instructions[j])
    /\ Len(router.dispatched) >= 3
    /\ IsPrimary(router.dispatched[1])
    /\ \E k \in 2..Len(router.dispatched) - 1 : IsProactive(router.dispatched[k])
    /\ router.dispatched[Len(router.dispatched)].agent = "xp_agent"

(***************************************************************************)
(*                 CLAIMS ABOUT THE INSTRUCTION COMPILER                   *)
(***************************************************************************)
IsPointInstruction(i) == i.agent = "xp_agent"
IsAdvisoryInstruction(i) ==
    ~IsPointInstruction(i) /\ i.origin \in {"morning", "condition", "proactive"}
IsSubIntentInstruction(i) == ~IsPointInstruction(i) /\ i.origin = "subintent"

\* C21: compiler ordering invariant: in every compiled batch every primary
\* instruction (one derived from a sub-intent) precedes every
\* advisory/condition instruction (daily morning check, condition-driven
\* calendar block, proactive weather check, auto-join), which in turn precede
\* the point instruction.
C21_PrimaryAdvisoryPoint ==
    \A i, j \in 1..Len(Instructions) :
        i < j =>
            /\ ~(IsAdvisoryInstruction(Instructions[i])
                 /\ IsSubIntentInstruction(Instructions[j]))
            /\ ~(IsPointInstruction(Instructions[i])
                 /\ (IsAdvisoryInstruction(Instructions[j])
                     \/ IsSubIntentInstruction(Instructions[j])))

\* C22: point-instruction cardinality: a batch built from sub-intents without
\* a point sub-intent contains exactly one point instruction if it has a
\* non-advisory, non-point capability and none otherwise; when a point
\* instruction is already present the compiler appends none.
C22_OnePointInstructionWhenNeeded ==
    (~IsNone(intent) /\ Val(intent).intents # <<>> /\ ~IsNone(parent_decision)) =>
        LET batch  == Instructions
            Points == {i \in 1..Len(batch) : IsPointInstruction(batch[i])}
        IN  IF \E i \in Points : batch[i].origin = "subintent"
            THEN \A i \in Points : batch[i].origin # "point"
            ELSE Cardinality(Points) =
                    IF \E i \in 1..Len(batch) : batch[i].agent \notin NonPrimaryAgents
                    THEN 1 ELSE 0

C27_EachInstructionExecutedOnce ==
    LET d == router.dispatched IN
    /\ \A k \in 1..Len(d) :
          d[k].executed = Some([intent |-> d[k].intent, origin |-> d[k].origin])
    /\ \A i, j \in 1..Len(d) :
          (i # j /\ d[i].agent = d[j].agent
             /\ ~IsNone(d[i].executed) /\ ~IsNone(d[j].executed))
          => d[i].executed # d[j].executed
    /\ (pc = "idle" /\ ~IsNone(router.summary)) => Len(d) = Len(Instructions)

\* C28: registry coverage: every capability name the Instruction Compiler can
\* emit (every value of the category-to-capability map and of the read-domain
\* map, plus the advisory and point capabilities) has a handler in the
\* router's registry, so no compiled instruction is skipped for lack of a
\* handler.
C28_EveryCompiledAgentHasRunner ==
    /\ \A i \in 1..Len(Instructions) :
          /\ Instructions[i].agent \in
                {CATEGORY_AGENT_MAP[c] : c \in DOMAIN CATEGORY_AGENT_MAP}
                \cup {READ_DOMAIN_AGENT_MAP[d] : d \in DOMAIN READ_DOMAIN_AGENT_MAP}
                \cup NonPrimaryAgents
          /\ Instructions[i].agent \in AgentRunners
    /\ (pc = "idle" /\ ~IsNone(router.summary)) =>
          \A i \in 1..Len(Instructions) :
              IsPrimary(Instructions[i]) =>
                  \E k \in 1..Len(router.dispatched) :
                      router.dispatched[k].agent = Instructions[i].agent

C30_AwaitingCanProgress ==
    conversation.status = "awaiting_user" =>
        /\ conversation.missing_fields # <<>>
        /\ \A i \in 1..Len(conversation.missing_fields) :
              conversation.missing_fields[i] \notin DOMAIN conversation.filled
        /\ Len(conversation.missing_fields) + Len(observed.cycle.answers)
              = Len(observed.cycle.fields)
        /\ Cardinality(DOMAIN conversation.filled) = Len(observed.cycle.answers)

\* an AwaitingUser session of three fields after its second answer: two
\* fields filled, one still asked for
C30_Witness ==
    /\ conversation.status = "awaiting_user"
    /\ Len(observed.cycle.fields) = 3
    /\ Len(observed.cycle.answers) = 2
    /\ Cardinality(DOMAIN conversation.filled) = 2
    /\ Len(conversation.missing_fields) = 1

=============================================================================
